---- MODULE Spec2Model ----
(***************************************************************************)
(* Room availability and booking status of the resort ledger keeper.       *)
(*                                                                         *)
(* The datastore (tables rooms, room_availability, bookings) and the two   *)
(* components that read and write it: RoomCalendar (the availability       *)
(* resolver getRoomStatus / getBookingForDate and the override write       *)
(* updateRoomStatus) and CustomerBookings (booking create, edit, status    *)
(* buttons).  The Dashboard shows one tab at a time; the component of a    *)
(* tab is mounted when the tab is selected and loses its state when the    *)
(* tab is left.                                                            *)
(***************************************************************************)
EXTENDS Integers, Sequences, FiniteSets, TLC

(***************************************************************************)
(* Bounds of the model                                                     *)
(***************************************************************************)
\* the date inputs are the days FirstDay .. FirstDay + MaxDay
MaxDay == 2
\* rows the bookings table may hold
MaxBookings == 1
\* rows the room_availability table may hold
MaxOverrides == 1
\* rows the transactions table may hold
MaxTransactions == 2

(***************************************************************************)
(* Dates.  A DATE column holds a day; here the day of the year 2024        *)
(* (1 = 2024-01-01).  The client sees and compares dates as the strings    *)
(* 'yyyy-MM-dd', modelled as sequences of character codes.                 *)
(***************************************************************************)
MonthLengths == <<31, 29, 31, 30, 31, 30, 31, 31, 30, 31, 30, 31>>

RECURSIVE DaysBefore(_)
\* days of the year before the first day of month m
DaysBefore(m) == IF m <= 1 THEN 0 ELSE DaysBefore(m - 1) + MonthLengths[m - 1]

MonthOf(doy) == CHOOSE m \in 1..12 : DaysBefore(m) < doy /\ doy <= DaysBefore(m) + MonthLengths[m]
DayOfMonth(doy) == doy - DaysBefore(MonthOf(doy))

\* 2024-05-31, a Friday: the date inputs straddle the May/June boundary
FirstDay == DaysBefore(5) + 31
Days == FirstDay .. (FirstDay + MaxDay)
\* new Date(): the day the calendar is used on, 2024-06-01, a Saturday
Today == FirstDay + 1

\* getDay(): 0 = Sunday; 2024-01-01 is a Monday
getDay(doy) == doy % 7
startOfMonth(doy) == DaysBefore(MonthOf(doy)) + 1
endOfMonth(doy) == DaysBefore(MonthOf(doy)) + MonthLengths[MonthOf(doy)]
addDays(doy, n) == doy + n

\* date-fns addMonths: the same day of the month n months later, or the last day of that
\* month when it is shorter (within the year)
addMonths(doy, n) ==
    LET m == MonthOf(doy) + n
        dom == DayOfMonth(doy)
    IN  DaysBefore(m) + (IF dom > MonthLengths[m] THEN MonthLengths[m] ELSE dom)
subMonths(doy, n) == addMonths(doy, -n)

Digit(k) == 48 + k
Pad2(n) == <<Digit(n \div 10), Digit(n % 10)>>
Pad4(n) == <<Digit(n \div 1000), Digit((n \div 100) % 10), Digit((n \div 10) % 10), Digit(n % 10)>>

\* format(day, 'yyyy-MM-dd'), and the text the datastore returns for a DATE
format(doy) == Pad4(2024) \o <<45>> \o Pad2(MonthOf(doy)) \o <<45>> \o Pad2(DayOfMonth(doy))

\* the datastore reading a 'yyyy-MM-dd' text into a DATE
ParseDate(s) ==
    LET m == (s[6] - 48) * 10 + (s[7] - 48)
        d == (s[9] - 48) * 10 + (s[10] - 48)
    IN  DaysBefore(m) + d

RECURSIVE StrLT(_, _)
\* a < b on JavaScript strings: the first differing code unit decides
StrLT(a, b) ==
    IF b = <<>> THEN FALSE
    ELSE IF a = <<>> THEN TRUE
    ELSE IF Head(a) # Head(b) THEN Head(a) < Head(b)
    ELSE StrLT(Tail(a), Tail(b))

StrGE(a, b) == ~StrLT(a, b)

(***************************************************************************)
(* Value sets                                                              *)
(***************************************************************************)
OverrideStatuses == {"available", "occupied", "maintenance", "blocked"}
BookingStatuses == {"confirmed", "checked_in", "checked_out", "cancelled"}

\* the first two of the sample rooms' types; the booking form's roomTypes
StandardRoom == "Standard Room"
DeluxeRoom == "Deluxe Room"

\* the rows the migration inserts into rooms (101 and 103), both active
SampleRooms ==
    { [id |-> 1, room_number |-> 101, room_type |-> StandardRoom, is_active |-> TRUE],
      [id |-> 2, room_number |-> 103, room_type |-> DeluxeRoom, is_active |-> TRUE] }

\* "no row" of find(), and null
Null == [id |-> 0]
\* the null of AuthState.user: a record no User equals
NullUser == [id |-> "null"]
\* the functions handed to AuthService.subscribe
Listeners == {1, 2}

(***************************************************************************)
(* State                                                                   *)
(***************************************************************************)
VARIABLES
    db_rooms,           \* table rooms: set of rows
    db_availability,    \* table room_availability: rows in insertion order
    db_bookings,        \* table bookings: rows in insertion order (id = position)
    activeTab,          \* Dashboard.activeTab
    currentDate,        \* RoomCalendar state: the day the displayed window is built around
    viewMode,           \* RoomCalendar state: "month" or "week"
    rooms,              \* RoomCalendar state: rooms snapshot
    availability,       \* RoomCalendar state: overrides snapshot
    bookings,           \* RoomCalendar state: active bookings snapshot
    selectedRoom,       \* RoomCalendar state: id of the selected room, 0 for null
    selectedDate,       \* RoomCalendar state: "" (<<>>) or a date string
    isStatusDialogOpen,
    isBookingDialogOpen,
    cbBookings,         \* CustomerBookings state: bookings snapshot
    editingBooking,     \* CustomerBookings state: id of the booking being edited, 0 for null
    isAddBookingOpen,
    lastError,          \* the last toast.error raised, "" when the last handler raised none
    cancelledLog,       \* history: ids of the bookings an operation moved to 'cancelled'
    rmRooms,            \* RoomManagement state: rooms snapshot
    failed,             \* history: the datastore requests of the last handler that returned an error
    pending,            \* RoomCalendar: the fetchData calls whose requests are not yet answered
    roomStats,          \* Dashboard state: roomStats
    db_transactions,    \* table transactions: rows in insertion order (id = position), amount in 1/100
    transactions,       \* Dashboard state: transactions snapshot
    editingTransaction, \* TransactionHistory state: id of the transaction being edited, 0 for null
    authBuild,          \* which version of the auth service is loaded: "none", "part_004", "part_005"
    authState,          \* AuthService.authState
    listeners,          \* AuthService.listeners
    delivered,          \* history: for each listener, the state of its last call (<<>> before any)
    localStorage,       \* the items auth_token and user_data
    db_users,           \* table users: rows
    db_user_sessions,   \* table user_sessions: rows
    authCalls,          \* the calls of the service that wait for the datastore
    authLast            \* history: the call of the service that returned last

vars == <<db_rooms, db_availability, db_bookings, activeTab, currentDate, viewMode, rooms, availability, bookings,
          selectedRoom, selectedDate, isStatusDialogOpen, isBookingDialogOpen,
          cbBookings, editingBooking, isAddBookingOpen, lastError, cancelledLog, rmRooms, failed,
          pending, roomStats, db_transactions, transactions, editingTransaction,
          authBuild, authState, listeners, delivered, localStorage, db_users, db_user_sessions,
          authCalls, authLast>>

dbVars == <<db_rooms, db_availability, db_bookings>>
calendarVars == <<currentDate, viewMode, rooms, availability, bookings, selectedRoom, selectedDate,
                  isStatusDialogOpen, isBookingDialogOpen>>
customerBookingsVars == <<cbBookings, editingBooking, isAddBookingOpen>>
\* the state outside the calendar, the room list and the booking list
authVars == <<authBuild, authState, listeners, delivered, localStorage, db_users, db_user_sessions,
              authCalls, authLast>>
sideVars == <<roomStats, db_transactions, transactions, authVars>>
extVars == <<pending, editingTransaction, sideVars>>

(***************************************************************************)
(* Sequence helpers                                                        *)
(***************************************************************************)
Range(s) == { s[i] : i \in DOMAIN s }

\* Array.prototype.find: the first element that satisfies P, else Null
Find(s, P(_)) ==
    IF \E i \in DOMAIN s : P(s[i])
    THEN s[CHOOSE i \in DOMAIN s : P(s[i]) /\ \A j \in 1..(i - 1) : ~P(s[j])]
    ELSE Null

\* the orders in which a select without an order clause may return its rows
Orderings(s) ==
    { [i \in DOMAIN s |-> s[p[i]]] :
        p \in { q \in [DOMAIN s -> DOMAIN s] : \A i, j \in DOMAIN s : q[i] = q[j] => i = j } }

Reverse(s) == [i \in DOMAIN s |-> s[Len(s) + 1 - i]]

(***************************************************************************)
(* The datastore                                                           *)
(***************************************************************************)
\* from('rooms').select('*').eq('is_active', true).order('room_number')
QueryRooms ==
    LET act == { r \in db_rooms : r.is_active }
        nth(i) == CHOOSE r \in act : Cardinality({ q \in act : q.room_number < r.room_number }) = i - 1
    IN  [i \in 1..Cardinality(act) |-> nth(i)]

\* RoomManagement: from('rooms').select('*').order('room_number')
QueryAllRooms ==
    LET nth(i) == CHOOSE r \in db_rooms : Cardinality({ q \in db_rooms : q.room_number < r.room_number }) = i - 1
    IN  [i \in 1..Cardinality(db_rooms) |-> nth(i)]

\* from('room_availability').select('*').gte('date', start).lte('date', end): rows in table order
QueryAvailability(tbl, startDate, endDate) ==
    LET hit(a) == a.date >= ParseDate(format(startDate)) /\ a.date <= ParseDate(format(endDate))
        row(a) == [room_id |-> a.room_id, date |-> format(a.date), status |-> a.status]
        sel == SelectSeq(tbl, hit)
    IN  [i \in DOMAIN sel |-> row(sel[i])]

BookingRow(tbl, i) ==
    [id |-> i, check_in |-> format(tbl[i].check_in), check_out |-> format(tbl[i].check_out),
     room_type |-> tbl[i].room_type, status |-> tbl[i].status]

AllBookingRows(tbl) == [i \in DOMAIN tbl |-> BookingRow(tbl, i)]

\* QueryActiveBookings without the filter in('status', ...)
QueryActiveBookings_AnyStatus(tbl) == AllBookingRows(tbl)

\* from('bookings').select(...).in('status', ['confirmed', 'checked_in']): rows in table order
QueryActiveBookings(tbl) ==
    SelectSeq(AllBookingRows(tbl), LAMBDA b : b.status \in {"confirmed", "checked_in"})

\* from('bookings').select(...).order('created_at', { ascending: false })
QueryAllBookings(tbl) == Reverse(AllBookingRows(tbl))

\* AvailabilityInsertOk of a table without UNIQUE(room_id, date)
AvailabilityInsertOk_NoUnique(tbl, row) ==
    /\ row.status \in OverrideStatuses
    /\ \E r \in db_rooms : r.id = row.room_id

\* room_availability: UNIQUE(room_id, date), status CHECK, room_id REFERENCES rooms
AvailabilityInsertOk(tbl, row) ==
    /\ row.status \in OverrideStatuses
    /\ \E r \in db_rooms : r.id = row.room_id
    /\ ~\E i \in DOMAIN tbl : tbl[i].room_id = row.room_id /\ tbl[i].date = row.date

\* upsert(row) without onConflict: INSERT ... ON CONFLICT (id) DO UPDATE.  The row carries
\* no id, so the generated primary key never conflicts and the statement is an insert that
\* the other constraints of the table accept or refuse.
Upsert(tbl, row) ==
    IF AvailabilityInsertOk(tbl, row)
    THEN [error |-> FALSE, rows |-> Append(tbl, row)]
    ELSE [error |-> TRUE, rows |-> tbl]

\* bookings: status CHECK
BookingRowOk(row) == row.status \in BookingStatuses

(***************************************************************************)
(* RoomCalendar: the resolver                                              *)
(***************************************************************************)
\* The functions below are closures over the component state; AvailabilityFor, RoomStatus and
\* BookingFor are their bodies with the state they read (rooms, availability, bookings)
\* passed as rs, av and bk.
AvailabilityFor(av, roomId, date) ==
    Find(av, LAMBDA a : a.room_id = roomId /\ a.date = date)

\* rooms.find(r => r.id === roomId)?.room_type
RoomTypeOf(rs, roomId) ==
    LET r == Find(rs, LAMBDA x : x.id = roomId)
    IN  IF r = Null THEN "undefined" ELSE r.room_type

\* RoomStatus with the booking inference consulted before the override
RoomStatus_BookingFirst(rs, av, bk, roomId, date) ==
    LET a == AvailabilityFor(av, roomId, date)
        booking == Find(bk, LAMBDA b :
                        /\ b.room_type = RoomTypeOf(rs, roomId)
                        /\ StrGE(date, b.check_in) /\ StrLT(date, b.check_out)
                        /\ b.status # "cancelled")
    IN  IF booking # Null THEN "occupied"
        ELSE IF a # Null THEN a.status ELSE "available"

\* RoomStatus with date > b.check_in
RoomStatus_CheckInExclusive(rs, av, bk, roomId, date) ==
    LET a == AvailabilityFor(av, roomId, date)
        booking == Find(bk, LAMBDA b :
                        /\ b.room_type = RoomTypeOf(rs, roomId)
                        /\ StrLT(b.check_in, date) /\ StrLT(date, b.check_out)
                        /\ b.status # "cancelled")
    IN  IF a # Null THEN a.status
        ELSE IF booking # Null THEN "occupied" ELSE "available"

\* RoomStatus with date <= b.check_out
RoomStatus_CheckOutInclusive(rs, av, bk, roomId, date) ==
    LET a == AvailabilityFor(av, roomId, date)
        booking == Find(bk, LAMBDA b :
                        /\ b.room_type = RoomTypeOf(rs, roomId)
                        /\ StrGE(date, b.check_in) /\ StrGE(b.check_out, date)
                        /\ b.status # "cancelled")
    IN  IF a # Null THEN a.status
        ELSE IF booking # Null THEN "occupied" ELSE "available"

\* RoomStatus without the date tests
RoomStatus_IgnoresDates(rs, av, bk, roomId, date) ==
    LET a == AvailabilityFor(av, roomId, date)
        booking == Find(bk, LAMBDA b :
                        /\ b.room_type = RoomTypeOf(rs, roomId)
                        /\ b.status # "cancelled")
    IN  IF a # Null THEN a.status
        ELSE IF booking # Null THEN "occupied" ELSE "available"

\* RoomStatus answering 'booked' for an inferred occupancy
RoomStatus_Booked(rs, av, bk, roomId, date) ==
    LET a == AvailabilityFor(av, roomId, date)
        booking == Find(bk, LAMBDA b :
                        /\ b.room_type = RoomTypeOf(rs, roomId)
                        /\ StrGE(date, b.check_in) /\ StrLT(date, b.check_out)
                        /\ b.status # "cancelled")
    IN  IF a # Null THEN a.status
        ELSE IF booking # Null THEN "booked" ELSE "available"

\* RoomStatus without the test b.status !== 'cancelled'
RoomStatus_CancelledCounts(rs, av, bk, roomId, date) ==
    LET a == AvailabilityFor(av, roomId, date)
        booking == Find(bk, LAMBDA b :
                        /\ b.room_type = RoomTypeOf(rs, roomId)
                        /\ StrGE(date, b.check_in) /\ StrLT(date, b.check_out))
    IN  IF a # Null THEN a.status
        ELSE IF booking # Null THEN "occupied" ELSE "available"

\* RoomStatus with the branches of the final conditional exchanged
RoomStatus_Inverted(rs, av, bk, roomId, date) ==
    LET a == AvailabilityFor(av, roomId, date)
        booking == Find(bk, LAMBDA b :
                        /\ b.room_type = RoomTypeOf(rs, roomId)
                        /\ StrGE(date, b.check_in) /\ StrLT(date, b.check_out)
                        /\ b.status # "cancelled")
    IN  IF a # Null THEN a.status
        ELSE IF booking # Null THEN "available" ELSE "occupied"

RoomStatus(rs, av, bk, roomId, date) ==
    LET a == AvailabilityFor(av, roomId, date)
        booking == Find(bk, LAMBDA b :
                        /\ b.room_type = RoomTypeOf(rs, roomId)
                        /\ StrGE(date, b.check_in) /\ StrLT(date, b.check_out)
                        /\ b.status # "cancelled")
    IN  IF a # Null THEN a.status
        ELSE IF booking # Null THEN "occupied" ELSE "available"

BookingFor(rs, bk, roomId, date) ==
    LET room == Find(rs, LAMBDA x : x.id = roomId)
    IN  IF room = Null THEN Null
        ELSE Find(bk, LAMBDA b :
                        /\ b.room_type = room.room_type
                        /\ StrGE(date, b.check_in) /\ StrLT(date, b.check_out)
                        /\ b.status # "cancelled")

getAvailabilityForDate(roomId, date) == AvailabilityFor(availability, roomId, date)
getRoomStatus(roomId, date) == RoomStatus(rooms, availability, bookings, roomId, date)
getBookingForDate(roomId, date) == BookingFor(rooms, bookings, roomId, date)

\* the displayed window: the month of currentDate, or its week starting on Sunday
WindowStart(cur, mode) == IF mode = "month" THEN startOfMonth(cur) ELSE addDays(cur, -getDay(cur))
WindowEnd(cur, mode) == IF mode = "month" THEN endOfMonth(cur) ELSE addDays(WindowStart(cur, mode), 6)
getDaysToShow == WindowStart(currentDate, viewMode) .. WindowEnd(currentDate, viewMode)

(***************************************************************************)
(* Dashboard: the room statistics                                          *)
(***************************************************************************)
\* the value fetchRoomStats hands to setRoomStats: the active rooms, the active bookings that
\* start or end today and the rows of room_availability for today
fetchRoomStats ==
    LET todayRooms == { r \in db_rooms : r.is_active }
        today == format(Today)
        todayBookings == SelectSeq(QueryActiveBookings(db_bookings),
                                   LAMBDA b : b.check_in = today \/ b.check_out = today)
        todayAvailability == QueryAvailability(db_availability, Today, Today)
        totalRooms == Cardinality(todayRooms)
        occupiedToday == Len(SelectSeq(todayAvailability, LAMBDA a : a.status = "occupied"))
    IN  [totalRooms |-> totalRooms,
         occupiedToday |-> occupiedToday,
         availableToday |-> totalRooms - occupiedToday,
         checkInsToday |-> Len(SelectSeq(todayBookings, LAMBDA b : b.check_in = today)),
         checkOutsToday |-> Len(SelectSeq(todayBookings, LAMBDA b : b.check_out = today))]

(***************************************************************************)
(* Initial state: the migrations have run, the Dashboard shows its first   *)
(* tab, no component of the other tabs is mounted.                         *)
(***************************************************************************)
CalendarUnmounted ==
    /\ currentDate = Today
    /\ viewMode = "month"
    /\ rooms = <<>>
    /\ availability = <<>>
    /\ bookings = <<>>
    /\ selectedRoom = 0
    /\ selectedDate = <<>>
    /\ isStatusDialogOpen = FALSE
    /\ isBookingDialogOpen = FALSE

CustomerBookingsUnmounted ==
    /\ cbBookings = <<>>
    /\ editingBooking = 0
    /\ isAddBookingOpen = FALSE

\* the state a component's useState calls give it, kept while it is not mounted
UnmountCalendar ==
    /\ currentDate' = Today
    /\ viewMode' = "month"
    /\ rooms' = <<>>
    /\ availability' = <<>>
    /\ bookings' = <<>>
    /\ selectedRoom' = 0
    /\ selectedDate' = <<>>
    /\ isStatusDialogOpen' = FALSE
    /\ isBookingDialogOpen' = FALSE

UnmountCustomerBookings ==
    /\ cbBookings' = <<>>
    /\ editingBooking' = 0
    /\ isAddBookingOpen' = FALSE

\* the table users as the migration leaves it: the one row of the administrator
SampleUsers ==
    <<[id |-> "user-1", username |-> "admin", email |-> "admin@ashokaresort.com",
       password_hash |-> "$2b$10$rOzJqQZQZQZQZQZQZQZQZu", full_name |-> "System Administrator",
       role |-> "admin", is_active |-> "true", last_login |-> "null"]>>

Init ==
    /\ db_rooms = SampleRooms
    /\ db_availability = <<>>
    /\ db_bookings = <<>>
    /\ activeTab = "dashboard"
    /\ CalendarUnmounted
    /\ CustomerBookingsUnmounted
    /\ lastError = ""
    /\ cancelledLog = {}
    /\ rmRooms = <<>>
    /\ failed = {}
    /\ pending = {}
    /\ roomStats = fetchRoomStats
    /\ db_transactions = <<>>
    /\ transactions = <<>>
    /\ editingTransaction = 0
    /\ authBuild = "none"
    /\ authState = [user |-> NullUser, isAuthenticated |-> FALSE, isLoading |-> TRUE]
    /\ listeners = <<>>
    /\ delivered = [l \in Listeners |-> <<>>]
    /\ localStorage = [auth_token |-> <<>>, user_data |-> <<>>]
    /\ db_users = SampleUsers
    /\ db_user_sessions = <<>>
    /\ authCalls = {}
    /\ authLast = [op |-> "none", ok |-> FALSE, user |-> NullUser]

(***************************************************************************)
(* RoomCalendar: fetches                                                   *)
(***************************************************************************)
\* the values setRooms, setAvailability and setBookings may receive
fetchRooms == QueryRooms
fetchAvailability(tbl, cur, mode) == Orderings(QueryAvailability(tbl, WindowStart(cur, mode), WindowEnd(cur, mode)))
fetchBookings == Orderings(QueryActiveBookings(db_bookings))

\* The datastore may answer a request with an error (the network, the service).  f is the set
\* of the requests of a handler that are answered so, each named by the table it reads, the
\* write of an override by "upsert", the update that flags a room inactive by "delete".
Requests == {"rooms", "room_availability", "bookings", "upsert", "delete"}

\* fetchData: Promise.all of the three fetches.  A fetch whose request returns an error logs
\* it to the console and returns before its set call; nothing is thrown, so the catch of
\* fetchData and its toast are not reached.
fetchDataWith(cur, mode, f) ==
    /\ IF "rooms" \in f THEN UNCHANGED rooms ELSE rooms' = fetchRooms
    /\ IF "room_availability" \in f
       THEN UNCHANGED availability
       ELSE availability' \in fetchAvailability(db_availability, cur, mode)
    /\ IF "bookings" \in f THEN UNCHANGED bookings ELSE bookings' \in fetchBookings

\* fetchData when every request succeeds
fetchData(cur, mode) == fetchDataWith(cur, mode, {})

(***************************************************************************)
(* Dashboard: the tabs                                                     *)
(***************************************************************************)
Tabs == {"dashboard", "calendar", "bookings"}

\* the content of tab t is mounted and its useEffect runs its fetch, whose requests in f
\* return an error; the content of every other tab is not mounted
MountContent(t, f) ==
    /\ IF t = "calendar"
       THEN /\ currentDate' = Today
            /\ viewMode' = "month"
            /\ fetchDataWith(Today, "month", f)
            /\ selectedRoom' = 0
            /\ selectedDate' = <<>>
            /\ isStatusDialogOpen' = FALSE
            /\ isBookingDialogOpen' = FALSE
       ELSE UnmountCalendar
    /\ IF t = "bookings"
       THEN /\ cbBookings' = (IF "bookings" \in f THEN <<>> ELSE QueryAllBookings(db_bookings))
            /\ editingBooking' = 0
            /\ isAddBookingOpen' = FALSE
       ELSE UnmountCustomerBookings
    /\ rmRooms' = (IF t = "rooms" /\ "rooms" \notin f THEN QueryAllRooms ELSE <<>>)
    /\ pending' = {}
    /\ editingTransaction' = 0

\* the toast.error the fetch of the content of tab t raises
MountError(t, f) ==
    IF t = "bookings" /\ "bookings" \in f THEN "Failed to load bookings"
    ELSE IF t = "rooms" /\ "rooms" \in f THEN "Failed to load rooms"
    ELSE ""

\* the requests the fetch of the content of tab t sends, among those in f
MountFailed(t, f) ==
    IF t = "calendar" THEN f \cap {"rooms", "room_availability", "bookings"}
    ELSE IF t = "bookings" THEN f \cap {"bookings"}
    ELSE IF t = "rooms" THEN f \cap {"rooms"}
    ELSE {}

\* Tabs.onValueChange: the content of the tab left is unmounted, the content of the tab
\* entered is mounted and its useEffect runs its fetch, whose requests in f return an error
MountTab(t, f) ==
    /\ t # activeTab
    /\ activeTab' = t
    /\ MountContent(t, f)
    /\ lastError' = MountError(t, f)
    /\ failed' = MountFailed(t, f)
    /\ UNCHANGED <<dbVars, cancelledLog, sideVars>>

\* a tab is selected and every request of its fetch succeeds
SelectTab(t) ==
    /\ t \in Tabs
    /\ MountTab(t, {})

(***************************************************************************)
(* RoomCalendar: handlers                                                  *)
(***************************************************************************)
CalendarIdle == activeTab = "calendar" /\ ~isStatusDialogOpen /\ ~isBookingDialogOpen

\* ClickCell opening the status dialog whether or not a booking matches
ClickCell_AlwaysStatusDialog(r, d) ==
    /\ CalendarIdle
    /\ r \in Range(rooms)
    /\ d \in getDaysToShow
    /\ selectedRoom' = r.id
    /\ selectedDate' = format(d)
    /\ isStatusDialogOpen' = TRUE
    /\ lastError' = ""
    /\ failed' = {}
    /\ UNCHANGED <<dbVars, activeTab, currentDate, viewMode, rooms, availability, bookings,
                   isBookingDialogOpen, customerBookingsVars, cancelledLog, rmRooms, extVars>>

\* onClick of the calendar cell of room r and day d
ClickCell(r, d) ==
    /\ CalendarIdle
    /\ r \in Range(rooms)
    /\ d \in getDaysToShow
    /\ LET dateStr == format(d)
           booking == getBookingForDate(r.id, dateStr)
       IN  /\ selectedRoom' = r.id
           /\ selectedDate' = dateStr
           /\ IF booking # Null
              THEN /\ isBookingDialogOpen' = TRUE
                   /\ UNCHANGED isStatusDialogOpen
              ELSE /\ isStatusDialogOpen' = TRUE
                   /\ UNCHANGED isBookingDialogOpen
    /\ lastError' = ""
    /\ failed' = {}
    /\ UNCHANGED <<dbVars, activeTab, currentDate, viewMode, rooms, availability, bookings,
                   customerBookingsVars, cancelledLog, rmRooms, extVars>>

\* the Update Status button of the status dialog, with status s chosen in its select, while
\* the table may hold cap rows and the requests in f return an error
updateRoomStatusWith(s, cap, f) ==
    /\ activeTab = "calendar"
    /\ isStatusDialogOpen
    /\ IF selectedRoom = 0 \/ selectedDate = <<>>
       THEN UNCHANGED vars
       ELSE LET res == IF "upsert" \in f
                       THEN [error |-> TRUE, rows |-> db_availability]
                       ELSE Upsert(db_availability,
                                   [room_id |-> selectedRoom, date |-> ParseDate(selectedDate), status |-> s])
            IN  IF res.error
                THEN /\ lastError' = "Failed to update room status"
                     /\ failed' = {"upsert"}
                     /\ UNCHANGED <<dbVars, activeTab, calendarVars, customerBookingsVars, cancelledLog,
                                    rmRooms, extVars>>
                ELSE /\ Len(res.rows) <= cap
                     /\ db_availability' = res.rows
                     /\ IF "room_availability" \in f
                        THEN UNCHANGED availability
                        ELSE availability' \in fetchAvailability(res.rows, currentDate, viewMode)
                     /\ isStatusDialogOpen' = FALSE
                     /\ lastError' = ""
                     /\ failed' = f \cap {"room_availability"}
                     /\ UNCHANGED <<db_rooms, db_bookings, activeTab, currentDate, viewMode, rooms, bookings,
                                    selectedRoom, selectedDate, isBookingDialogOpen,
                                    customerBookingsVars, cancelledLog, rmRooms, extVars>>

\* updateRoomStatus when every request reaches the datastore
updateRoomStatus(s) ==
    /\ s \in OverrideStatuses
    /\ updateRoomStatusWith(s, MaxOverrides, {})

\* Cancel button or onOpenChange(false) of the status dialog
CloseStatusDialog ==
    /\ activeTab = "calendar"
    /\ isStatusDialogOpen
    /\ isStatusDialogOpen' = FALSE
    /\ lastError' = ""
    /\ failed' = {}
    /\ UNCHANGED <<dbVars, activeTab, currentDate, viewMode, rooms, availability, bookings,
                   selectedRoom, selectedDate, isBookingDialogOpen,
                   customerBookingsVars, cancelledLog, rmRooms, extVars>>

\* onOpenChange(false) of the booking details dialog
CloseBookingDialog ==
    /\ activeTab = "calendar"
    /\ isBookingDialogOpen
    /\ isBookingDialogOpen' = FALSE
    /\ lastError' = ""
    /\ failed' = {}
    /\ UNCHANGED <<dbVars, activeTab, currentDate, viewMode, rooms, availability, bookings,
                   selectedRoom, selectedDate, isStatusDialogOpen,
                   customerBookingsVars, cancelledLog, rmRooms, extVars>>

\* rooms.update({ is_active: false }).eq('id', roomId): the row stays in the table
SoftDelete(tbl, roomId) ==
    { IF r.id = roomId THEN [r EXCEPT !.is_active = FALSE] ELSE r : r \in tbl }

\* deleteRoom with DELETE FROM rooms, which cascades to room_availability
deleteRoom_HardDelete(roomId, f) ==
    /\ CalendarIdle
    /\ \E r \in Range(rooms) : r.id = roomId
    /\ IF "delete" \in f
       THEN /\ lastError' = "Failed to delete room"
            /\ failed' = {"delete"}
            /\ UNCHANGED <<dbVars, rooms>>
       ELSE /\ db_rooms' = { r \in db_rooms : r.id # roomId }
            /\ db_availability' = SelectSeq(db_availability, LAMBDA a : a.room_id # roomId)
            /\ IF "rooms" \in f THEN UNCHANGED rooms ELSE rooms' = QueryRooms'
            /\ lastError' = ""
            /\ failed' = f \cap {"rooms"}
            /\ UNCHANGED db_bookings
    /\ UNCHANGED <<activeTab, currentDate, viewMode, availability, bookings,
                   selectedRoom, selectedDate, isStatusDialogOpen, isBookingDialogOpen,
                   customerBookingsVars, cancelledLog, rmRooms, extVars>>

\* the delete button of the row of room roomId, confirmed in the confirm() box, then
\* fetchRooms; the requests in f return an error
deleteRoom(roomId, f) ==
    /\ CalendarIdle
    /\ \E r \in Range(rooms) : r.id = roomId
    /\ IF "delete" \in f
       THEN /\ lastError' = "Failed to delete room"
            /\ failed' = {"delete"}
            /\ UNCHANGED <<dbVars, rooms>>
       ELSE /\ db_rooms' = SoftDelete(db_rooms, roomId)
            /\ IF "rooms" \in f THEN UNCHANGED rooms ELSE rooms' = QueryRooms'
            /\ lastError' = ""
            /\ failed' = f \cap {"rooms"}
            /\ UNCHANGED <<db_availability, db_bookings>>
    /\ UNCHANGED <<activeTab, currentDate, viewMode, availability, bookings,
                   selectedRoom, selectedDate, isStatusDialogOpen, isBookingDialogOpen,
                   customerBookingsVars, cancelledLog, rmRooms, extVars>>

(***************************************************************************)
(* RoomManagement: handlers                                                *)
(***************************************************************************)
\* the Delete button of the alert dialog of the listed (active) room id, then fetchRooms
handleDelete(id, f) ==
    /\ activeTab = "rooms"
    /\ \E r \in Range(rmRooms) : r.id = id /\ r.is_active
    /\ IF "delete" \in f
       THEN /\ lastError' = "Failed to delete room"
            /\ failed' = {"delete"}
            /\ UNCHANGED <<dbVars, rmRooms, extVars>>
       ELSE /\ db_rooms' = SoftDelete(db_rooms, id)
            /\ IF "rooms" \in f THEN UNCHANGED rmRooms ELSE rmRooms' = QueryAllRooms'
            /\ lastError' = (IF "rooms" \in f THEN "Failed to load rooms" ELSE "")
            /\ failed' = f \cap {"rooms"}
            /\ UNCHANGED <<db_availability, db_bookings>>
    /\ UNCHANGED <<activeTab, calendarVars, customerBookingsVars, cancelledLog, extVars>>

(***************************************************************************)
(* CustomerBookings: handlers                                              *)
(***************************************************************************)
BookingsIdle == activeTab = "bookings" /\ ~isAddBookingOpen

\* the ids of the rows whose status an update moved to 'cancelled'
NewlyCancelled(old, new) ==
    { i \in DOMAIN old : old[i].status # "cancelled" /\ new[i].status = "cancelled" }

\* the Add Booking button: resetBookingForm(), then the dialog opens
OpenAddBooking ==
    /\ BookingsIdle
    /\ editingBooking' = 0
    /\ isAddBookingOpen' = TRUE
    /\ lastError' = ""
    /\ failed' = {}
    /\ UNCHANGED <<dbVars, activeTab, calendarVars, cbBookings, cancelledLog, rmRooms, extVars>>

\* the edit button of the listed booking b
startEditBooking(b) ==
    /\ BookingsIdle
    /\ b \in Range(cbBookings)
    /\ editingBooking' = b.id
    /\ isAddBookingOpen' = TRUE
    /\ lastError' = ""
    /\ failed' = {}
    /\ UNCHANGED <<dbVars, activeTab, calendarVars, cbBookings, cancelledLog, rmRooms, extVars>>

\* the Cancel button of the booking form
resetBookingForm ==
    /\ activeTab = "bookings"
    /\ isAddBookingOpen
    /\ editingBooking' = 0
    /\ isAddBookingOpen' = FALSE
    /\ lastError' = ""
    /\ failed' = {}
    /\ UNCHANGED <<dbVars, activeTab, calendarVars, cbBookings, cancelledLog, rmRooms, extVars>>

\* handleBookingSubmitWith refusing a new booking whose range overlaps that of a stored active
\* booking of the same room_type
handleBookingSubmit_RefusesOverlap(check_in, check_out, room_type, status, cap) ==
    /\ activeTab = "bookings"
    /\ isAddBookingOpen
    /\ IF check_in = <<>> \/ check_out = <<>> \/ room_type = ""
       THEN /\ lastError' = "Please fill in all required fields"
            /\ failed' = {}
            /\ UNCHANGED <<dbVars, activeTab, calendarVars, customerBookingsVars, cancelledLog, rmRooms, extVars>>
       ELSE LET bookingData == [check_in |-> ParseDate(check_in), check_out |-> ParseDate(check_out),
                                room_type |-> room_type, status |-> status]
                updated == IF editingBooking # 0
                           THEN [i \in DOMAIN db_bookings |->
                                    IF i = editingBooking THEN bookingData ELSE db_bookings[i]]
                           ELSE Append(db_bookings, bookingData)
                overlap == \E i \in DOMAIN db_bookings :
                              /\ db_bookings[i].status \in {"confirmed", "checked_in"}
                              /\ db_bookings[i].room_type = room_type
                              /\ db_bookings[i].check_in < bookingData.check_out
                              /\ bookingData.check_in < db_bookings[i].check_out
            IN  IF editingBooking = 0 /\ overlap
                THEN /\ lastError' = "Failed to add booking"
                     /\ failed' = {"bookings"}
                     /\ UNCHANGED <<dbVars, activeTab, calendarVars, customerBookingsVars, cancelledLog,
                                    rmRooms, extVars>>
                ELSE /\ BookingRowOk(bookingData)
                     /\ Len(updated) <= cap
                     /\ db_bookings' = updated
                     /\ cancelledLog' = (cancelledLog \cup NewlyCancelled(db_bookings, updated))
                     /\ editingBooking' = 0
                     /\ isAddBookingOpen' = FALSE
                     /\ cbBookings' = QueryAllBookings(updated)
                     /\ lastError' = ""
                     /\ failed' = {}
                     /\ UNCHANGED <<db_rooms, db_availability, activeTab, calendarVars, rmRooms, extVars>>

\* submit of the booking form holding check_in, check_out ('' or yyyy-MM-dd), room_type, status,
\* while the table may hold cap rows
handleBookingSubmitWith(check_in, check_out, room_type, status, cap) ==
    /\ activeTab = "bookings"
    /\ isAddBookingOpen
    /\ IF check_in = <<>> \/ check_out = <<>> \/ room_type = ""
       THEN /\ lastError' = "Please fill in all required fields"
            /\ failed' = {}
            /\ UNCHANGED <<dbVars, activeTab, calendarVars, customerBookingsVars, cancelledLog, rmRooms, extVars>>
       ELSE LET bookingData == [check_in |-> ParseDate(check_in), check_out |-> ParseDate(check_out),
                                room_type |-> room_type, status |-> status]
                updated == IF editingBooking # 0
                           THEN [i \in DOMAIN db_bookings |->
                                    IF i = editingBooking THEN bookingData ELSE db_bookings[i]]
                           ELSE Append(db_bookings, bookingData)
            IN  /\ BookingRowOk(bookingData)
                /\ Len(updated) <= cap
                /\ db_bookings' = updated
                /\ cancelledLog' = (cancelledLog \cup NewlyCancelled(db_bookings, updated))
                /\ editingBooking' = 0
                /\ isAddBookingOpen' = FALSE
                /\ cbBookings' = QueryAllBookings(updated)
                /\ lastError' = ""
                /\ failed' = {}
                /\ UNCHANGED <<db_rooms, db_availability, activeTab, calendarVars, rmRooms, extVars>>

\* handleBookingSubmit with one of the four statuses of the form's select
handleBookingSubmit(check_in, check_out, room_type, status) ==
    /\ status \in BookingStatuses
    /\ handleBookingSubmitWith(check_in, check_out, room_type, status, MaxBookings)

\* updateBookingStatus that also removes the overrides of the rooms of the booking's type
updateBookingStatus_ClearsOverrides(id, newStatus) ==
    LET updated == [i \in DOMAIN db_bookings |->
                        IF i = id THEN [db_bookings[i] EXCEPT !.status = newStatus] ELSE db_bookings[i]]
    IN  /\ db_bookings' = updated
        /\ db_availability' = SelectSeq(db_availability, LAMBDA a :
                                  \A r \in db_rooms : r.id = a.room_id => r.room_type # db_bookings[id].room_type)
        /\ cancelledLog' = (cancelledLog \cup NewlyCancelled(db_bookings, updated))
        /\ cbBookings' = QueryAllBookings(updated)
        /\ lastError' = ""
        /\ failed' = {}
        /\ UNCHANGED <<db_rooms, activeTab, calendarVars, editingBooking, isAddBookingOpen, rmRooms, extVars>>

\* updateBookingStatus refusing the move from checked_in to checked_out
updateBookingStatus_RefusesCheckOut(id, newStatus) ==
    LET updated == [i \in DOMAIN db_bookings |->
                        IF i = id THEN [db_bookings[i] EXCEPT !.status = newStatus] ELSE db_bookings[i]]
    IN  IF newStatus = "checked_out"
        THEN /\ lastError' = "Failed to update booking status"
             /\ failed' = {"bookings"}
             /\ UNCHANGED <<dbVars, activeTab, calendarVars, customerBookingsVars, cancelledLog, rmRooms,
                            extVars>>
        ELSE /\ db_bookings' = updated
             /\ cancelledLog' = (cancelledLog \cup NewlyCancelled(db_bookings, updated))
             /\ cbBookings' = QueryAllBookings(updated)
             /\ lastError' = ""
             /\ failed' = {}
             /\ UNCHANGED <<db_rooms, db_availability, activeTab, calendarVars, editingBooking,
                            isAddBookingOpen, rmRooms, extVars>>

\* update({ status: newStatus }).eq('id', id), then fetchData
updateBookingStatus(id, newStatus) ==
    LET updated == [i \in DOMAIN db_bookings |->
                        IF i = id THEN [db_bookings[i] EXCEPT !.status = newStatus] ELSE db_bookings[i]]
    IN  /\ db_bookings' = updated
        /\ cancelledLog' = (cancelledLog \cup NewlyCancelled(db_bookings, updated))
        /\ cbBookings' = QueryAllBookings(updated)
        /\ lastError' = ""
        /\ failed' = {}
        /\ UNCHANGED <<db_rooms, db_availability, activeTab, calendarVars, editingBooking, isAddBookingOpen,
                       rmRooms, extVars>>

\* the Check In button, shown for a listed booking whose status is confirmed
ClickCheckIn(b) ==
    /\ BookingsIdle
    /\ b \in Range(cbBookings)
    /\ b.status = "confirmed"
    /\ updateBookingStatus(b.id, "checked_in")

\* the Check Out button, shown for a listed booking whose status is checked_in
ClickCheckOut(b) ==
    /\ BookingsIdle
    /\ b \in Range(cbBookings)
    /\ b.status = "checked_in"
    /\ updateBookingStatus(b.id, "checked_out")

(***************************************************************************)
(* Inputs and the specification                                            *)
(***************************************************************************)
\* the dates entered in the booking form: check-in on all but the last day, check-out on
\* all but the first, so that empty or reversed ranges are entered too
CheckInInputs == { format(d) : d \in FirstDay .. (FirstDay + MaxDay - 1) } \cup {<<>>}
CheckOutInputs == { format(d) : d \in (FirstDay + 1) .. (FirstDay + MaxDay) }
RoomTypeInputs == {StandardRoom}
BookingForms == { [id |-> i, check_in |-> ci, check_out |-> co, room_type |-> t, status |-> st] :
                    i \in 1..MaxBookings, ci \in CheckInInputs \ {<<>>}, co \in CheckOutInputs,
                    t \in RoomTypeInputs, st \in BookingStatuses }

Next ==
    \/ \E t \in Tabs : SelectTab(t)
    \/ \E r \in SampleRooms, d \in Days : ClickCell(r, d)
    \/ \E s \in OverrideStatuses : updateRoomStatus(s)
    \/ CloseStatusDialog
    \/ CloseBookingDialog
    \/ OpenAddBooking
    \/ \E b \in BookingForms : startEditBooking(b)
    \/ resetBookingForm
    \/ \E ci \in CheckInInputs, co \in CheckOutInputs, t \in RoomTypeInputs, st \in BookingStatuses :
          handleBookingSubmit(ci, co, t, st)
    \/ \E b \in BookingForms : ClickCheckIn(b)
    \/ \E b \in BookingForms : ClickCheckOut(b)

Spec == Init /\ [][Next]_vars

(***************************************************************************)
(* The calendar and the room list with the faults of the datastore and a   *)
(* second session: the overrides and the rooms                             *)
(***************************************************************************)
\* updateRoomStatus of another session (another browser) for room r, day d and status s: its
\* upsert reaches the datastore, the answer goes to that session
RemoteUpdateRoomStatus(r, d, s) ==
    LET res == Upsert(db_availability, [room_id |-> r.id, date |-> d, status |-> s])
    IN  /\ r \in db_rooms
        /\ r.is_active
        /\ ~res.error
        /\ Len(res.rows) <= MaxOverrides + 1
        /\ db_availability' = res.rows
        /\ UNCHANGED <<db_rooms, db_bookings, activeTab, calendarVars, customerBookingsVars,
                       lastError, cancelledLog, rmRooms, failed, extVars>>

RoomTabs == {"dashboard", "calendar", "rooms"}
\* the statuses the other session writes
RemoteStatuses == {"blocked"}

NextOverrides ==
    \/ \E t \in RoomTabs, f \in SUBSET {"rooms", "room_availability"} : MountTab(t, f)
    \/ \E r \in SampleRooms, d \in Days : ClickCell(r, d)
    \/ \E s \in OverrideStatuses, f \in SUBSET {"upsert", "room_availability"} :
          updateRoomStatusWith(s, MaxOverrides + 1, f)
    \/ CloseStatusDialog
    \/ \E r \in SampleRooms, f \in SUBSET {"delete", "rooms"} : deleteRoom(r.id, f)
    \/ \E r \in SampleRooms, f \in SUBSET {"delete", "rooms"} : handleDelete(r.id, f)
    \/ \E r \in SampleRooms, d \in Days, s \in RemoteStatuses : RemoteUpdateRoomStatus(r, d, s)

SpecOverrides == Init /\ [][NextOverrides]_vars

(***************************************************************************)
(* The calendar of this session and the writes of a second session, every  *)
(* request answered by the datastore                                       *)
(***************************************************************************)
NextWriters ==
    \/ \E t \in {"dashboard", "calendar"} : MountTab(t, {})
    \/ \E r \in SampleRooms, d \in Days : ClickCell(r, d)
    \/ \E s \in OverrideStatuses : updateRoomStatusWith(s, MaxOverrides + 1, {})
    \/ CloseStatusDialog
    \/ \E r \in SampleRooms, d \in Days, s \in RemoteStatuses : RemoteUpdateRoomStatus(r, d, s)

SpecWriters == Init /\ [][NextWriters]_vars

(***************************************************************************)
(* The booking list with room for one more booking, and the calendar       *)
(***************************************************************************)
\* the rows the booking list may show when the table holds up to cap rows
ListedBookings(cap) ==
    { [id |-> i, check_in |-> ci, check_out |-> co, room_type |-> t, status |-> st] :
        i \in 1..cap, ci \in CheckInInputs \ {<<>>}, co \in CheckOutInputs,
        t \in RoomTypeInputs, st \in BookingStatuses }

\* the status the staff of this specification write as overrides
MaintenanceOnly == {"maintenance"}

NextBookings ==
    \/ \E t \in Tabs : MountTab(t, {})
    \/ \E r \in SampleRooms, d \in Days : ClickCell(r, d)
    \/ \E s \in MaintenanceOnly : updateRoomStatusWith(s, MaxOverrides, {})
    \/ CloseStatusDialog
    \/ CloseBookingDialog
    \/ OpenAddBooking
    \/ \E b \in ListedBookings(MaxBookings + 1) : startEditBooking(b)
    \/ resetBookingForm
    \/ \E ci \in CheckInInputs, co \in CheckOutInputs, t \in RoomTypeInputs, st \in BookingStatuses :
          handleBookingSubmitWith(ci, co, t, st, MaxBookings + 1)
    \/ \E b \in ListedBookings(MaxBookings + 1) : ClickCheckIn(b)
    \/ \E b \in ListedBookings(MaxBookings + 1) : ClickCheckOut(b)

SpecBookings == Init /\ [][NextBookings]_vars

(***************************************************************************)
(* The calendar with its navigation: the fetch that a change of            *)
(* currentDate starts is answered later, in any order with the others      *)
(***************************************************************************)
\* fetch calls that may be unanswered at once
MaxInFlight == 2
\* the first and the last day the navigation may reach: 2024-05-01 and today
NavFirst == DaysBefore(5) + 1
NavLast == Today

\* setCurrentDate(day): the component renders with the new currentDate and the effect on
\* [currentDate] calls fetchData, whose requests carry the window of that render
setCurrentDate(day) ==
    /\ CalendarIdle
    /\ day \in NavFirst..NavLast
    /\ Cardinality(pending) < MaxInFlight
    /\ currentDate' = day
    /\ pending' = pending \cup {[cur |-> day, mode |-> viewMode]}
    /\ lastError' = ""
    /\ failed' = {}
    /\ UNCHANGED <<dbVars, activeTab, viewMode, rooms, availability, bookings, selectedRoom, selectedDate,
                   isStatusDialogOpen, isBookingDialogOpen, customerBookingsVars, cancelledLog, rmRooms,
                   editingTransaction, sideVars>>

\* the buttons prev and next
navigateDate(direction) ==
    /\ direction \in {"prev", "next"}
    /\ IF viewMode = "month"
       THEN /\ MonthOf(currentDate) + (IF direction = "next" THEN 1 ELSE -1) \in 1..12
            /\ setCurrentDate(IF direction = "next" THEN addMonths(currentDate, 1) ELSE subMonths(currentDate, 1))
       ELSE setCurrentDate(IF direction = "next" THEN addDays(currentDate, 7) ELSE addDays(currentDate, -7))

\* the button Today: setCurrentDate(new Date())
goToToday ==
    /\ activeTab = "calendar"
    /\ setCurrentDate(Today)

\* the buttons Month and Week: setViewMode(mode); no effect depends on viewMode, nothing is fetched
setViewMode(mode) ==
    /\ CalendarIdle
    /\ mode \in {"month", "week"}
    /\ mode # viewMode
    /\ viewMode' = mode
    /\ lastError' = ""
    /\ failed' = {}
    /\ UNCHANGED <<dbVars, activeTab, currentDate, rooms, availability, bookings, selectedRoom, selectedDate,
                   isStatusDialogOpen, isBookingDialogOpen, customerBookingsVars, cancelledLog, rmRooms,
                   extVars>>

\* the requests of the fetchData call q are answered and its fetches call setRooms,
\* setAvailability and setBookings
fetchDataDone(q) ==
    /\ activeTab = "calendar"
    /\ q \in pending
    /\ pending' = pending \ {q}
    /\ fetchData(q.cur, q.mode)
    /\ UNCHANGED <<dbVars, activeTab, currentDate, viewMode, selectedRoom, selectedDate,
                   isStatusDialogOpen, isBookingDialogOpen, customerBookingsVars, lastError, cancelledLog,
                   rmRooms, failed, editingTransaction, sideVars>>

\* the fetchData calls the navigation may start
FetchCalls == [cur : NavFirst..NavLast, mode : {"month", "week"}]

NextNavigation ==
    \/ \E t \in {"dashboard", "calendar"} : MountTab(t, {})
    \/ \E r \in SampleRooms, d \in Days : ClickCell(r, d)
    \/ \E s \in MaintenanceOnly : updateRoomStatusWith(s, MaxOverrides, {})
    \/ CloseStatusDialog
    \/ \E direction \in {"prev", "next"} : navigateDate(direction)
    \/ goToToday
    \/ \E mode \in {"month", "week"} : setViewMode(mode)
    \/ \E q \in FetchCalls : fetchDataDone(q)

SpecNavigation == Init /\ [][NextNavigation]_vars

(***************************************************************************)
(* Dashboard: the Refresh button and the room statistics                   *)
(***************************************************************************)
\* from('transactions').select('*').order('created_at', { ascending: false })
QueryTransactions(tbl) == Reverse([i \in DOMAIN tbl |-> [id |-> i, type |-> tbl[i].type, amount |-> tbl[i].amount]])

\* the Refresh button of the header: fetchTransactions() and fetchRoomStats(), whose requests
\* in f return an error.  While fetchTransactions runs, loading is true and the Dashboard
\* renders the loading screen in place of the tabs; when it ends the content of the active tab
\* is mounted anew and runs its fetch, whose requests in g return an error
Refresh(f, g) ==
    /\ transactions' = (IF "transactions" \in f THEN transactions ELSE QueryTransactions(db_transactions))
    /\ roomStats' = (IF f \cap {"rooms", "bookings", "room_availability"} # {} THEN roomStats ELSE fetchRoomStats)
    /\ MountContent(activeTab, g)
    /\ lastError' = (IF MountError(activeTab, g) # "" THEN MountError(activeTab, g)
                     ELSE IF "transactions" \in f THEN "Failed to load transactions"
                     ELSE "")
    /\ failed' = f \cup MountFailed(activeTab, g)
    /\ UNCHANGED <<dbVars, activeTab, cancelledLog, db_transactions, authVars>>

NextDashboard ==
    \/ \E t \in Tabs : MountTab(t, {})
    \/ \E r \in SampleRooms, d \in Days : ClickCell(r, d)
    \/ \E s \in OverrideStatuses : updateRoomStatusWith(s, MaxOverrides, {})
    \/ CloseStatusDialog
    \/ CloseBookingDialog
    \/ OpenAddBooking
    \/ \E b \in BookingForms : startEditBooking(b)
    \/ resetBookingForm
    \/ \E ci \in CheckInInputs, co \in CheckOutInputs, t \in RoomTypeInputs, st \in BookingStatuses :
          handleBookingSubmitWith(ci, co, t, st, MaxBookings)
    \/ \E b \in BookingForms : ClickCheckIn(b)
    \/ \E b \in BookingForms : ClickCheckOut(b)
    \/ \E f \in SUBSET {"rooms"} : Refresh(f, {})

SpecDashboard == Init /\ [][NextDashboard]_vars

(***************************************************************************)
(* The ledger: the transactions table, the expense form and the edit       *)
(* dialog of the transaction list                                          *)
(***************************************************************************)
\* A JavaScript number: NaN, or a value held in thousandths
NaN == [nan |-> TRUE, milli |-> 0]
Num(milli) == [nan |-> FALSE, milli |-> milli]
isNaN(x) == x.nan
IsDigit(c) == c \in 48..57

RECURSIVE LeadingDigits(_)
\* the longest prefix of digits
LeadingDigits(s) == IF s # <<>> /\ IsDigit(Head(s)) THEN <<Head(s)>> \o LeadingDigits(Tail(s)) ELSE <<>>

RECURSIVE DigitsValue(_)
DigitsValue(ds) == IF ds = <<>> THEN 0 ELSE DigitsValue(SubSeq(ds, 1, Len(ds) - 1)) * 10 + (ds[Len(ds)] - 48)

\* parseFloat: the number the longest numeric prefix of the text writes (sign, digits, point,
\* digits; three decimals are kept), NaN if there is none
parseFloat(s) ==
    LET neg == s # <<>> /\ Head(s) = 45
        body == IF neg THEN Tail(s) ELSE s
        ip == LeadingDigits(body)
        rest == SubSeq(body, Len(ip) + 1, Len(body))
        fp == IF rest # <<>> /\ Head(rest) = 46 THEN LeadingDigits(Tail(rest)) ELSE <<>>
        fp3 == SubSeq(fp \o <<48, 48, 48>>, 1, 3)
        milli == DigitsValue(ip) * 1000 + DigitsValue(fp3)
    IN  IF ip = <<>> /\ fp = <<>> THEN NaN
        ELSE IF neg THEN Num(-milli) ELSE Num(milli)

\* validatePrice: !isNaN(numPrice) && numPrice >= 0
validatePrice(price) ==
    LET numPrice == parseFloat(price)
    IN  ~isNaN(numPrice) /\ numPrice.milli >= 0

\* a number written into a DECIMAL(10,2) column: rounded to hundredths, half away from zero
ToDecimal2(milli) == IF milli >= 0 THEN (milli + 5) \div 10 ELSE -((-milli + 5) \div 10)

\* TransactionRowOk of a table without CHECK (amount > 0)
TransactionRowOk_NoAmountCheck(row) ==
    row.type \in {"income", "expense"}

\* transactions: type CHECK, amount CHECK (amount > 0); the amounts entered stay far below
\* the precision of DECIMAL(10,2)
TransactionRowOk(row) ==
    /\ row.type \in {"income", "expense"}
    /\ row.amount > 0

\* Dashboard.addTransaction: insert([transaction]).select().single(), then the new row is put
\* in front of the snapshot
addTransaction(transaction) ==
    LET row == [type |-> transaction.type, amount |-> ToDecimal2(transaction.amount)]
    IN  IF TransactionRowOk(row)
        THEN /\ Len(db_transactions) < MaxTransactions
             /\ db_transactions' = Append(db_transactions, row)
             /\ transactions' = <<[id |-> Len(db_transactions) + 1, type |-> row.type, amount |-> row.amount]>>
                                 \o transactions
             /\ lastError' = ""
             /\ failed' = {}
        ELSE /\ lastError' = "Failed to add transaction"
             /\ failed' = {"transactions"}
             /\ UNCHANGED <<db_transactions, transactions>>

\* AddExpenseForm.handleSubmit with the category chosen and the text of the amount input
AddExpenseForm_handleSubmit(category, amount) ==
    /\ activeTab = "expense"
    /\ IF category = "" \/ amount = <<>>
       THEN /\ lastError' = "Please fill in all required fields"
            /\ failed' = {}
            /\ UNCHANGED <<db_transactions, transactions>>
       ELSE IF ~validatePrice(amount)
       THEN /\ lastError' = "Please enter a valid amount greater than 0"
            /\ failed' = {}
            /\ UNCHANGED <<db_transactions, transactions>>
       ELSE addTransaction([type |-> "expense", amount |-> parseFloat(amount).milli])
    /\ UNCHANGED <<dbVars, activeTab, calendarVars, customerBookingsVars, cancelledLog, rmRooms,
                   pending, editingTransaction, roomStats, authVars>>

\* the edit button of the listed transaction t: setEditingTransaction(transaction)
startEditTransaction(t) ==
    /\ activeTab = "transactions"
    /\ editingTransaction = 0
    /\ t \in Range(transactions)
    /\ editingTransaction' = t.id
    /\ lastError' = ""
    /\ failed' = {}
    /\ UNCHANGED <<dbVars, activeTab, calendarVars, customerBookingsVars, cancelledLog, rmRooms,
                   pending, sideVars>>

\* onClose of the edit dialog: setEditingTransaction(null)
closeEditTransaction ==
    /\ activeTab = "transactions"
    /\ editingTransaction # 0
    /\ editingTransaction' = 0
    /\ lastError' = ""
    /\ failed' = {}
    /\ UNCHANGED <<dbVars, activeTab, calendarVars, customerBookingsVars, cancelledLog, rmRooms,
                   pending, sideVars>>

\* EditTransactionDialog.handleSubmit with the text of the amount input: update(updateData)
\* .eq('id', transaction.id), then onUpdate (fetchTransactions, after which the transaction
\* list is mounted anew) and onClose
EditTransactionDialog_handleSubmit(amount) ==
    /\ activeTab = "transactions"
    /\ editingTransaction # 0
    /\ IF ~validatePrice(amount)
       THEN /\ lastError' = "Please enter a valid amount"
            /\ failed' = {}
            /\ UNCHANGED <<db_transactions, transactions, editingTransaction>>
       ELSE LET row == [db_transactions[editingTransaction] EXCEPT !.amount = ToDecimal2(parseFloat(amount).milli)]
                updated == [db_transactions EXCEPT ![editingTransaction] = row]
            IN  IF TransactionRowOk(row)
                THEN /\ db_transactions' = updated
                     /\ transactions' = QueryTransactions(updated)
                     /\ editingTransaction' = 0
                     /\ lastError' = ""
                     /\ failed' = {}
                ELSE /\ lastError' = "Failed to update transaction"
                     /\ failed' = {"transactions"}
                     /\ UNCHANGED <<db_transactions, transactions, editingTransaction>>
    /\ UNCHANGED <<dbVars, activeTab, calendarVars, customerBookingsVars, cancelledLog, rmRooms,
                   pending, roomStats, authVars>>

\* the texts entered in an amount input: '', 'abc', '-5', '0', '0.004', '0.005', '5', '12.50'
AmountInputs ==
    { <<>>, <<97, 98, 99>>, <<45, 53>>, <<48>>, <<48, 46, 48, 48, 52>>, <<48, 46, 48, 48, 53>>, <<53>>,
      <<49, 50, 46, 53, 48>> }
\* the categories chosen in the expense form: none, or the first of expenseCategories
CategoryInputs == {"", "Groceries"}
LedgerTabs == {"dashboard", "expense", "transactions"}
\* the rows the transaction list may show
ListedTransactions ==
    { [id |-> i, type |-> "expense", amount |-> ToDecimal2(parseFloat(a).milli)] :
        i \in 1..MaxTransactions, a \in { x \in AmountInputs : validatePrice(x) } }

NextLedger ==
    \/ \E t \in LedgerTabs : MountTab(t, {})
    \/ \E c \in CategoryInputs, a \in AmountInputs : AddExpenseForm_handleSubmit(c, a)
    \/ \E t \in ListedTransactions : startEditTransaction(t)
    \/ closeEditTransaction
    \/ \E a \in AmountInputs : EditTransactionDialog_handleSubmit(a)
    \/ \E f \in SUBSET {"transactions"} : Refresh(f, {})

SpecLedger == Init /\ [][NextLedger]_vars

(***************************************************************************)
(* AuthService, in its two versions: src/unnamed/part_004 keeps the user   *)
(* in localStorage, src/unnamed/part_005 validates the stored token        *)
(* against the table user_sessions                                         *)
(***************************************************************************)
AuthBuilds == {"part_004", "part_005"}
\* the values generateSessionToken may return
Tokens == {"tok1", "tok2"}
\* the credentials typed into the login form
Usernames == {"admin", "guest"}
Passwords == {"ashoka123", "admin123", "wrong"}
\* the most calls of the service that wait for the datastore at one time
MaxCalls == 1

\* the User built by the default-credentials path of login
adminUser ==
    [id |-> "admin-default", username |-> "admin", full_name |-> "System Administrator",
     role |-> "admin", is_active |-> "true"]

\* the User login and validateSession build from a row of users
UserOfRow(row) ==
    [id |-> row.id, username |-> row.username, email |-> row.email, full_name |-> row.full_name,
     role |-> row.role, is_active |-> row.is_active, last_login |-> row.last_login]

\* JSON.stringify of a User: the text holds one member per property whose value is defined
Undefined == "undefined"
JSON_stringify(u) == { <<k, u[k]>> : k \in { p \in DOMAIN u : u[p] # Undefined } }
\* JSON.parse of such a text: an object with one property per member
JSON_parse(text) == [k \in { m[1] : m \in text } |-> (CHOOSE m \in text : m[1] = k)[2]]

\* localStorage: getItem answers <<>> for null, <<v>> for a stored v
getItem(key) == localStorage[key]
setItem(ls, key, value) == [ls EXCEPT ![key] = <<value>>]
removeItem(ls, key) == [ls EXCEPT ![key] = <<>>]

\* { ...this.authState, ...updates }
MergeState(st, updates) ==
    [user |-> IF "user" \in DOMAIN updates THEN updates.user ELSE st.user,
     isAuthenticated |-> IF "isAuthenticated" \in DOMAIN updates THEN updates.isAuthenticated
                         ELSE st.isAuthenticated,
     isLoading |-> IF "isLoading" \in DOMAIN updates THEN updates.isLoading ELSE st.isLoading]

\* notify, with one listener left out: the last subscribed one is not called
notify_SkipsLast(ls, st, del) ==
    [l \in Listeners |-> IF \E i \in 1..(Len(ls) - 1) : ls[i] = l THEN <<st>> ELSE del[l]]

\* notify: every subscribed listener is called with the state; del records, for each
\* listener, the state of its last call
notify(ls, st, del) ==
    [l \in Listeners |-> IF l \in Range(ls) THEN <<st>> ELSE del[l]]

\* the service as a handler sees it between two of its statements
Service == [authState |-> authState, delivered |-> delivered]

\* updateState: merge, then notify
updateState(svc, updates) ==
    LET st == MergeState(svc.authState, updates)
    IN  [authState |-> st, delivered |-> notify(listeners, st, svc.delivered)]

SetService(svc) ==
    /\ authState' = svc.authState
    /\ delivered' = svc.delivered

\* the variables no method of the service reads or writes, toasts apart
outsideAuth == <<dbVars, activeTab, calendarVars, customerBookingsVars, cancelledLog, rmRooms, failed,
                 pending, editingTransaction, roomStats, db_transactions, transactions>>

\* history: what a call returned, and for a waiting initialize the call that had returned
\* last when it was made
Completed(op, ok, user) == [op |-> op, ok |-> ok, user |-> user]
Call(id, op, stage) ==
    [id |-> id, op |-> op, stage |-> stage, username |-> "", password |-> "", user |-> NullUser,
     token |-> "", prev |-> Completed("none", FALSE, NullUser)]
FreeCallIds == (1..MaxCalls) \ { c.id : c \in authCalls }

\* export const authService: the module is loaded in one of its two versions
AuthService_new(build) ==
    /\ authBuild = "none"
    /\ build \in AuthBuilds
    /\ authBuild' = build
    /\ UNCHANGED <<authState, listeners, delivered, localStorage, db_users, db_user_sessions,
                   authCalls, authLast, lastError, outsideAuth>>

subscribe(listener) ==
    /\ authBuild # "none"
    /\ listener \notin Range(listeners)
    /\ listeners' = Append(listeners, listener)
    /\ UNCHANGED <<authBuild, authState, delivered, localStorage, db_users, db_user_sessions,
                   authCalls, authLast, lastError, outsideAuth>>

\* the function subscribe returned
unsubscribe(listener) ==
    /\ listener \in Range(listeners)
    /\ listeners' = SelectSeq(listeners, LAMBDA l : l # listener)
    /\ UNCHANGED <<authBuild, authState, delivered, localStorage, db_users, db_user_sessions,
                   authCalls, authLast, lastError, outsideAuth>>

\* initialize.  part_004 reads both items and runs to its end; the text in user_data was
\* written by login, so JSON.parse does not throw.  part_005 runs to its end when no token is
\* stored and waits for validateSession otherwise.
initialize ==
    /\ authBuild # "none"
    /\ LET s1 == updateState(Service, [isLoading |-> TRUE])
           sessionToken == getItem("auth_token")
           userData == getItem("user_data")
           signedOut == [user |-> NullUser, isAuthenticated |-> FALSE, isLoading |-> FALSE]
       IN  IF authBuild = "part_004"
           THEN /\ IF sessionToken # <<>> /\ userData # <<>>
                   THEN SetService(updateState(s1, [user |-> JSON_parse(userData[1]),
                                                    isAuthenticated |-> TRUE, isLoading |-> FALSE]))
                   ELSE SetService(updateState(s1, signedOut))
                /\ authLast' = Completed("initialize", TRUE, NullUser)
                /\ UNCHANGED authCalls
           ELSE IF sessionToken = <<>>
           THEN /\ SetService(updateState(s1, signedOut))
                /\ authLast' = Completed("initialize", TRUE, NullUser)
                /\ UNCHANGED authCalls
           ELSE /\ FreeCallIds # {}
                /\ SetService(s1)
                /\ \E id \in FreeCallIds :
                      authCalls' = authCalls \cup
                          {[Call(id, "initialize", "validateSession") EXCEPT !.token = sessionToken[1],
                                                                             !.prev = authLast]}
                /\ UNCHANGED authLast
    /\ UNCHANGED <<authBuild, listeners, localStorage, db_users, db_user_sessions, lastError,
                   outsideAuth>>

\* validateSession: the session with the token that has not expired, .single(); an error
\* or no such session answers null
validateSession(token, err) ==
    LET session == SelectSeq(db_user_sessions,
                             LAMBDA s : s.session_token = token /\ ~s.expired)
        user == SelectSeq(db_users, LAMBDA u : u.id = session[1].user_id)
    IN  IF err \/ Len(session) # 1 \/ Len(user) = 0 THEN NullUser ELSE UserOfRow(user[1])

\* part_005 initialize, after validateSession has answered
initialize_validated(c, err) ==
    /\ c \in authCalls
    /\ c.op = "initialize"
    /\ LET user == validateSession(c.token, err)
       IN  IF user # NullUser
           THEN SetService(updateState(Service, [user |-> user, isAuthenticated |-> TRUE,
                                                 isLoading |-> FALSE]))
           ELSE SetService(updateState(Service, [user |-> NullUser, isAuthenticated |-> FALSE,
                                                 isLoading |-> FALSE]))
    /\ authCalls' = authCalls \ {c}
    /\ authLast' = Completed("initialize", TRUE, NullUser)
    /\ UNCHANGED <<authBuild, listeners, localStorage, db_users, db_user_sessions, lastError,
                   outsideAuth>>

\* login.  part_004 signs the default credentials in at once and asks the table users for
\* any other; part_005 refuses any other and asks the table users for the admin row.
login(username, password) ==
    /\ authBuild # "none"
    /\ LET default == username = "admin" /\ password = "ashoka123"
       IN  IF authBuild = "part_004" /\ default
           THEN /\ \E sessionToken \in Tokens :
                      localStorage' = setItem(setItem(localStorage, "auth_token", sessionToken),
                                              "user_data", JSON_stringify(adminUser))
                /\ SetService(updateState(Service, [user |-> adminUser, isAuthenticated |-> TRUE]))
                /\ authLast' = Completed("login", TRUE, adminUser)
                /\ lastError' = ""
                /\ UNCHANGED authCalls
           ELSE IF authBuild = "part_005" /\ ~default
           THEN /\ authLast' = Completed("login", FALSE, NullUser)
                /\ lastError' = "Invalid credentials. Please try again."
                /\ UNCHANGED <<authState, delivered, localStorage, authCalls>>
           ELSE /\ FreeCallIds # {}
                /\ \E id \in FreeCallIds :
                      authCalls' = authCalls \cup
                          {[Call(id, "login", "select") EXCEPT !.username = username,
                                                                !.password = password]}
                /\ UNCHANGED <<authState, delivered, localStorage, authLast, lastError>>
    /\ UNCHANGED <<authBuild, listeners, db_users, db_user_sessions, outsideAuth>>

\* login, after the select on users has answered (err: with an error)
login_selected(c, err) ==
    /\ c \in authCalls
    /\ c.op = "login"
    /\ c.stage = "select"
    /\ LET users == IF authBuild = "part_004"
                    THEN SelectSeq(db_users, LAMBDA u : u.username = c.username /\ u.is_active = "true")
                    ELSE SelectSeq(db_users, LAMBDA u : u.username = "admin")
           found == ~err /\ Len(users) = 1
           isValidPassword == c.password \in {"ashoka123", "admin123"}
       IN  IF authBuild = "part_004" /\ (~found \/ ~isValidPassword)
           THEN /\ authLast' = Completed("login", FALSE, NullUser)
                /\ lastError' = "Invalid credentials. Please try again."
                /\ authCalls' = authCalls \ {c}
                /\ UNCHANGED <<authState, delivered, localStorage>>
           ELSE IF authBuild = "part_005" /\ ~found
           THEN /\ \E sessionToken \in Tokens :
                      localStorage' = setItem(localStorage, "auth_token", sessionToken)
                /\ SetService(updateState(Service, [user |-> adminUser, isAuthenticated |-> TRUE]))
                /\ authLast' = Completed("login", TRUE, adminUser)
                /\ lastError' = ""
                /\ authCalls' = authCalls \ {c}
           ELSE /\ \E sessionToken \in Tokens :
                      localStorage' =
                          IF authBuild = "part_004"
                          THEN setItem(setItem(localStorage, "auth_token", sessionToken),
                                       "user_data", JSON_stringify(UserOfRow(users[1])))
                          ELSE setItem(localStorage, "auth_token", sessionToken)
                /\ authCalls' = (authCalls \ {c}) \cup
                                    {[c EXCEPT !.stage = "update", !.user = UserOfRow(users[1])]}
                /\ UNCHANGED <<authState, delivered, authLast, lastError>>
    /\ UNCHANGED <<authBuild, listeners, db_users, db_user_sessions, outsideAuth>>

\* login, after the update of last_login has answered; its result is not looked at
login_updated(c, err) ==
    /\ c \in authCalls
    /\ c.op = "login"
    /\ c.stage = "update"
    /\ db_users' = IF err THEN db_users
                   ELSE [i \in DOMAIN db_users |->
                            IF db_users[i].id = c.user.id
                            THEN [db_users[i] EXCEPT !.last_login = "now"] ELSE db_users[i]]
    /\ SetService(updateState(Service, [user |-> c.user, isAuthenticated |-> TRUE]))
    /\ authLast' = Completed("login", TRUE, c.user)
    /\ lastError' = ""
    /\ authCalls' = authCalls \ {c}
    /\ UNCHANGED <<authBuild, listeners, localStorage, db_user_sessions, outsideAuth>>

\* logout.  part_004 removes both items; part_005 first deletes the session of the stored
\* token, when there is one.
logout ==
    /\ authBuild # "none"
    /\ LET signedOut == [user |-> NullUser, isAuthenticated |-> FALSE]
       IN  IF authBuild = "part_004"
           THEN /\ localStorage' = removeItem(removeItem(localStorage, "auth_token"), "user_data")
                /\ SetService(updateState(Service, signedOut))
                /\ authLast' = Completed("logout", TRUE, NullUser)
                /\ UNCHANGED authCalls
           ELSE IF getItem("auth_token") = <<>>
           THEN /\ localStorage' = removeItem(localStorage, "auth_token")
                /\ SetService(updateState(Service, signedOut))
                /\ authLast' = Completed("logout", TRUE, NullUser)
                /\ UNCHANGED authCalls
           ELSE /\ FreeCallIds # {}
                /\ \E id \in FreeCallIds :
                      authCalls' = authCalls \cup
                          {[Call(id, "logout", "delete") EXCEPT !.token = getItem("auth_token")[1]]}
                /\ UNCHANGED <<authState, delivered, localStorage, authLast>>
    /\ UNCHANGED <<authBuild, listeners, db_users, db_user_sessions, lastError, outsideAuth>>

\* part_005 logout, after the delete on user_sessions has answered
logout_deleted(c, err) ==
    /\ c \in authCalls
    /\ c.op = "logout"
    /\ db_user_sessions' = IF err THEN db_user_sessions
                           ELSE SelectSeq(db_user_sessions, LAMBDA s : s.session_token # c.token)
    /\ localStorage' = removeItem(localStorage, "auth_token")
    /\ SetService(updateState(Service, [user |-> NullUser, isAuthenticated |-> FALSE]))
    /\ authLast' = Completed("logout", TRUE, NullUser)
    /\ authCalls' = authCalls \ {c}
    /\ UNCHANGED <<authBuild, listeners, db_users, lastError, outsideAuth>>

NextAuth ==
    \/ \E build \in AuthBuilds : AuthService_new(build)
    \/ \E l \in Listeners : subscribe(l)
    \/ \E l \in Listeners : unsubscribe(l)
    \/ initialize
    \/ \E c \in authCalls, err \in BOOLEAN : initialize_validated(c, err)
    \/ \E u \in Usernames, p \in Passwords : login(u, p)
    \/ \E c \in authCalls, err \in BOOLEAN : login_selected(c, err)
    \/ \E c \in authCalls, err \in BOOLEAN : login_updated(c, err)
    \/ logout
    \/ \E c \in authCalls, err \in BOOLEAN : logout_deleted(c, err)

SpecAuth == Init /\ [][NextAuth]_vars

\* The service used one call at a time, each awaited before the next is made, with a datastore
\* that answers every request without an error
NextSession ==
    \/ \E build \in AuthBuilds : AuthService_new(build)
    \/ \E l \in Listeners : subscribe(l)
    \/ \E l \in Listeners : unsubscribe(l)
    \/ authCalls = {} /\ initialize
    \/ \E c \in authCalls : initialize_validated(c, FALSE)
    \/ authCalls = {} /\ \E u \in Usernames, p \in Passwords : login(u, p)
    \/ \E c \in authCalls : login_selected(c, FALSE)
    \/ \E c \in authCalls : login_updated(c, FALSE)
    \/ authCalls = {} /\ logout
    \/ \E c \in authCalls : logout_deleted(c, FALSE)

SpecSession == Init /\ [][NextSession]_vars

(***************************************************************************)
(* Properties of the resolver                                              *)
(***************************************************************************)
ActiveStatuses == {"confirmed", "checked_in"}
CalendarMounted == activeTab = "calendar"

\* the resolver's input holds an override of room id r for day d
HasOverride(r, d) == \E a \in Range(availability) : a.room_id = r /\ a.date = format(d)
\* day d lies in [check_in, check_out) of the booking row b, as days
CoversDay(b, d) == ParseDate(b.check_in) <= d /\ d < ParseDate(b.check_out)
\* the resolver's input holds a booking of room_type t that covers day d
HasCoveringBooking(t, d) == \E b \in Range(bookings) : b.room_type = t /\ CoversDay(b, d)

\* C1: an override in the resolver's input for (room_id, date) is the effective status of that
\* room on that date, whatever bookings the input holds
C1_OverrideWins ==
    \A a \in Range(availability) : getRoomStatus(a.room_id, a.date) = a.status

\* C1 witness: an override other than 'occupied' on a day an active booking of the room's type covers
C1_Witness ==
    /\ CalendarMounted
    /\ \E a \in Range(availability), b \in Range(bookings), r \in Range(rooms) :
          /\ r.id = a.room_id /\ b.room_type = r.room_type
          /\ b.status \in ActiveStatuses
          /\ CoversDay(b, ParseDate(a.date))
          /\ a.status # "occupied"
          /\ getRoomStatus(a.room_id, a.date) = a.status

\* C2: a confirmed or checked_in booking makes every room of its room_type that has no
\* override 'occupied' on every day d with check_in <= d < check_out
C2_ActiveBookingOccupies ==
    \A b \in Range(bookings), r \in Range(rooms), d \in Days :
        (/\ b.status \in ActiveStatuses
         /\ CoversDay(b, d)
         /\ r.room_type = b.room_type
         /\ ~HasOverride(r.id, d))
        => getRoomStatus(r.id, format(d)) = "occupied"

\* C2 witness: a room shown occupied on the check-in day of an active booking, across the
\* month boundary, while a room of another type stays available
C2_Witness ==
    /\ CalendarMounted
    /\ \E b \in Range(bookings), r, q \in Range(rooms) :
          /\ b.status = "checked_in"
          /\ ParseDate(b.check_in) = FirstDay /\ ParseDate(b.check_out) > FirstDay + 1
          /\ r.room_type = b.room_type /\ q.room_type # b.room_type
          /\ \A d \in Days : ~HasOverride(r.id, d) /\ ~HasOverride(q.id, d)
          /\ getRoomStatus(r.id, b.check_in) = "occupied"
          /\ getRoomStatus(r.id, format(FirstDay + 1)) = "occupied"
          /\ getRoomStatus(q.id, b.check_in) = "available"

\* C3: occupancy is half-open.  Without an override a room is 'occupied' on day d only if a
\* booking of its type has check_in <= d < check_out, so never through a booking on its
\* check_out day, before its check_in or after its check_out; with a single confirmed booking
\* and no override the check_in day is 'occupied' and the check_out day 'available'
C3_HalfOpen ==
    /\ \A r \in Range(rooms), d \in Days :
          (~HasOverride(r.id, d) /\ getRoomStatus(r.id, format(d)) = "occupied")
          => HasCoveringBooking(r.room_type, d)
    /\ (/\ Len(bookings) = 1
        /\ bookings[1].status = "confirmed"
        /\ ParseDate(bookings[1].check_in) < ParseDate(bookings[1].check_out)
        /\ availability = <<>>)
       => \A r \in Range(rooms) : r.room_type = bookings[1].room_type =>
             /\ getRoomStatus(r.id, bookings[1].check_in) = "occupied"
             /\ getRoomStatus(r.id, bookings[1].check_out) = "available"

\* C3 witness: a single confirmed booking, no override; occupied on check_in, available on
\* check_out and on the day before check_in
C3_Witness ==
    /\ CalendarMounted
    /\ Len(bookings) = 1 /\ availability = <<>>
    /\ bookings[1].status = "confirmed"
    /\ ParseDate(bookings[1].check_in) = FirstDay + 1
    /\ ParseDate(bookings[1].check_out) = FirstDay + 2
    /\ \E r \in Range(rooms) :
          /\ r.room_type = bookings[1].room_type
          /\ getRoomStatus(r.id, bookings[1].check_in) = "occupied"
          /\ getRoomStatus(r.id, bookings[1].check_out) = "available"
          /\ getRoomStatus(r.id, format(FirstDay)) = "available"

\* C4: a room with no override for a day and no booking of its type covering that day is
\* 'available' on it
C4_DefaultAvailable ==
    \A r \in Range(rooms), d \in Days :
        (~HasOverride(r.id, d) /\ ~HasCoveringBooking(r.room_type, d))
        => getRoomStatus(r.id, format(d)) = "available"

\* C4 witness: a room available on a day that the booking of its type does not cover
C4_Witness ==
    /\ CalendarMounted
    /\ \E r \in Range(rooms), b \in Range(bookings), d \in Days :
          /\ b.room_type = r.room_type
          /\ b.status \in ActiveStatuses
          /\ ParseDate(b.check_in) < ParseDate(b.check_out)
          /\ ~CoversDay(b, d)
          /\ ~HasOverride(r.id, d) /\ ~HasCoveringBooking(r.room_type, d)
          /\ getRoomStatus(r.id, format(d)) = "available"

\* C5: for every room and day the resolver's answer is one of the four statuses, and the
\* overrides it may answer from agree
C5_OneOfFourStatuses ==
    \A r \in Range(rooms), d \in Days :
        /\ getRoomStatus(r.id, format(d)) \in OverrideStatuses
        /\ \A a1, a2 \in Range(availability) :
              (a1.room_id = r.id /\ a2.room_id = r.id /\ a1.date = format(d) /\ a2.date = format(d))
              => a1.status = a2.status

\* C5 witness: the calendar shows an inferred 'occupied', an override 'maintenance' and an
\* 'available' at once
C5_Witness ==
    /\ CalendarMounted
    /\ \E r1, r2, r3 \in Range(rooms), d1, d2, d3 \in Days :
          /\ ~HasOverride(r1.id, d1) /\ getRoomStatus(r1.id, format(d1)) = "occupied"
          /\ HasOverride(r2.id, d2) /\ getRoomStatus(r2.id, format(d2)) = "maintenance"
          /\ getRoomStatus(r3.id, format(d3)) = "available"
\* the bookings table holds an active booking other than row i, of room_type t, covering day d
OtherActiveCovers(i, t, d) ==
    \E j \in DOMAIN db_bookings :
        /\ j # i
        /\ db_bookings[j].status \in ActiveStatuses
        /\ db_bookings[j].room_type = t
        /\ db_bookings[j].check_in <= d /\ d < db_bookings[j].check_out

\* C6: a booking whose stored status is cancelled makes no room 'occupied' and is not the
\* matching booking of any room and day: in the calendar as fetched, and for the resolver
\* handed the row of the cancelled booking itself
C6_CancelledNeverOccupies ==
    \A i \in DOMAIN db_bookings : db_bookings[i].status = "cancelled" =>
        /\ CalendarMounted =>
              \A r \in Range(rooms), d \in Days :
                  /\ getBookingForDate(r.id, format(d)).id # i
                  /\ (~HasOverride(r.id, d) /\ ~OtherActiveCovers(i, r.room_type, d))
                     => getRoomStatus(r.id, format(d)) # "occupied"
        /\ \A r \in Range(QueryRooms), d \in Days :
              /\ RoomStatus(QueryRooms, <<>>, <<BookingRow(db_bookings, i)>>, r.id, format(d)) # "occupied"
              /\ BookingFor(QueryRooms, <<BookingRow(db_bookings, i)>>, r.id, format(d)) = Null

\* C6 witness: a cancelled booking over a non-empty range, and a room of its type shown
\* available, with no matching booking, on its check-in day
C6_Witness ==
    /\ CalendarMounted
    /\ \E i \in DOMAIN db_bookings, r \in Range(rooms) :
          /\ db_bookings[i].status = "cancelled"
          /\ db_bookings[i].check_in < db_bookings[i].check_out
          /\ r.room_type = db_bookings[i].room_type
          /\ getRoomStatus(r.id, format(db_bookings[i].check_in)) = "available"
          /\ getBookingForDate(r.id, format(db_bookings[i].check_in)) = Null

\* C7: once an operation has set a booking's status to cancelled, the calendar, fetched again,
\* shows every room of its type 'available' on every day of [check_in, check_out) that no
\* other active booking covers and that has no override
C7_CancelFreesRange ==
    CalendarMounted =>
        \A i \in cancelledLog : db_bookings[i].status = "cancelled" =>
            \A r \in Range(rooms), d \in Days :
                (/\ r.room_type = db_bookings[i].room_type
                 /\ db_bookings[i].check_in <= d /\ d < db_bookings[i].check_out
                 /\ ~OtherActiveCovers(i, r.room_type, d)
                 /\ ~HasOverride(r.id, d))
                => getRoomStatus(r.id, format(d)) = "available"

\* C7 witness: a booking that was edited to cancelled, and a room of its type shown
\* available on a day of its range
C7_Witness ==
    /\ CalendarMounted
    /\ \E i \in cancelledLog, r \in Range(rooms), d \in Days :
          /\ db_bookings[i].status = "cancelled"
          /\ r.room_type = db_bookings[i].room_type
          /\ db_bookings[i].check_in <= d /\ d < db_bookings[i].check_out
          /\ ~HasOverride(r.id, d)
          /\ getRoomStatus(r.id, format(d)) = "available"

(***************************************************************************)
(* Properties of the mutations                                             *)
(***************************************************************************)
TerminalStatuses == {"checked_out", "cancelled"}

\* C8: no operation changes the status of a booking whose status is checked_out or
\* cancelled: the attempt is rejected with an error and the stored status stays
C8_TerminalStatesFinal ==
    [][\A i \in DOMAIN db_bookings :
          db_bookings[i].status \in TerminalStatuses =>
              db_bookings'[i].status = db_bookings[i].status]_vars

\* C9: a booking is stored with status confirmed when it is created
C9_CreatedConfirmed ==
    [][Len(db_bookings') > Len(db_bookings) =>
          db_bookings'[Len(db_bookings')].status = "confirmed"]_vars

\* the stored override of room id r on the day of the date string date, Null if none
StoredOverride(tbl, r, date) ==
    Find(tbl, LAMBDA a : a.room_id = r /\ format(a.date) = date)

\* C10: every write of an override succeeds, also a second one for the same (room_id, date)
\* with another status, and leaves the stored override and the resolved status of that
\* room and date equal to the status written
C10_LastWriteWins ==
    [][\A s \in OverrideStatuses :
          (updateRoomStatus(s) /\ selectedRoom # 0 /\ selectedDate # <<>>) =>
              /\ lastError' = ""
              /\ StoredOverride(db_availability', selectedRoom, selectedDate).status = s
              /\ RoomStatus(rooms', availability', bookings', selectedRoom, selectedDate) = s]_vars

(***************************************************************************)
(* Properties of the stored overrides and rooms                            *)
(***************************************************************************)
\* C11: the room_availability table never holds two rows for one (room_id, date)
C11_OneOverridePerRoomDate ==
    \A i, j \in DOMAIN db_availability :
        (db_availability[i].room_id = db_availability[j].room_id
         /\ db_availability[i].date = db_availability[j].date) => i = j

\* C11 witness: two overrides are stored, and a write of this session for a (room_id, date)
\* that already has one has just been refused by the datastore
C11_Witness ==
    /\ Len(db_availability) = MaxOverrides + 1
    /\ lastError = "Failed to update room status"
    /\ failed = {"upsert"}
    /\ StoredOverride(db_availability, selectedRoom, selectedDate) # Null

\* C12: when an override write has succeeded, the resolver answers the written status for
\* the room and date written
C12_MutationReflected ==
    [][\A s \in OverrideStatuses, f \in SUBSET {"upsert", "room_availability"} :
          (updateRoomStatusWith(s, MaxOverrides + 1, f) /\ db_availability' # db_availability) =>
              RoomStatus(rooms', availability', bookings', selectedRoom', selectedDate') = s]_vars

\* the overrides a fetch over the date inputs returns from the table tbl
FetchedOverrides(tbl) == QueryAvailability(tbl, FirstDay, FirstDay + MaxDay)

\* C13: a step that changes the status of a booking leaves the room_availability table as it
\* is, and every stored override is still the effective status of its room and date for a
\* calendar fetched after the step
C13_BookingChangeKeepsOverrides ==
    [][(\E i \in DOMAIN db_bookings :
            i \in DOMAIN db_bookings' /\ db_bookings'[i].status # db_bookings[i].status) =>
          /\ db_availability' = db_availability
          /\ \A a \in Range(FetchedOverrides(db_availability')) :
                RoomStatus(QueryRooms', FetchedOverrides(db_availability'),
                           QueryActiveBookings(db_bookings'), a.room_id, a.date) = a.status]_vars

\* C13 witness: a booking was cancelled, an override other than 'available' is stored for a
\* room of its type on a day of its range, and the calendar shows the override's status
C13_Witness ==
    /\ CalendarMounted
    /\ \E i \in cancelledLog, a \in Range(availability), r \in Range(rooms) :
          /\ db_bookings[i].status = "cancelled"
          /\ r.id = a.room_id /\ r.room_type = db_bookings[i].room_type
          /\ db_bookings[i].check_in <= ParseDate(a.date) /\ ParseDate(a.date) < db_bookings[i].check_out
          /\ a.status # "available"
          /\ getRoomStatus(a.room_id, a.date) = a.status

\* C14: no step removes a row of the rooms table or activates a room again: a row either
\* stays as it is or stays with is_active = false; and no step removes or changes a stored
\* override
C14_SoftDelete ==
    [][/\ Cardinality(db_rooms') = Cardinality(db_rooms)
       /\ \A r \in db_rooms : r \in db_rooms' \/ [r EXCEPT !.is_active = FALSE] \in db_rooms'
       /\ Len(db_availability') >= Len(db_availability)
       /\ \A i \in DOMAIN db_availability : db_availability'[i] = db_availability[i]]_vars

\* C14 witness: both rooms were deleted; their rows are stored with is_active = false, the
\* room list has fetched them, and the override of one of them is still stored
C14_Witness ==
    /\ Cardinality(db_rooms) = Cardinality(SampleRooms)
    /\ \A r \in db_rooms : ~r.is_active
    /\ \E a \in Range(db_availability) : \E r \in db_rooms : r.id = a.room_id
    /\ activeTab = "rooms" /\ rmRooms # <<>>

(***************************************************************************)
(* Properties of the stored bookings                                       *)
(***************************************************************************)
\* C15: every stored booking has check_in < check_out
C15_CheckInBeforeCheckOut ==
    \A i \in DOMAIN db_bookings : db_bookings[i].check_in < db_bookings[i].check_out

\* C16: a session that writes an override for a (room_id, date) for which another session has
\* stored one since this session fetched is answered without an error, and the table then
\* holds exactly one row for the pair, with the status this session wrote
C16_ConcurrentWritersBothSucceed ==
    [][\A s \in OverrideStatuses :
          (/\ updateRoomStatusWith(s, MaxOverrides + 1, {})
           /\ selectedRoom # 0
           /\ getAvailabilityForDate(selectedRoom, selectedDate) = Null
           /\ StoredOverride(db_availability, selectedRoom, selectedDate) # Null) =>
              /\ lastError' = ""
              /\ Cardinality({ i \in DOMAIN db_availability' :
                                  /\ db_availability'[i].room_id = selectedRoom
                                  /\ format(db_availability'[i].date) = selectedDate }) = 1
              /\ StoredOverride(db_availability', selectedRoom, selectedDate).status = s]_vars

\* the stored active bookings of room_type t that cover day d
ActiveCovering(t, d) ==
    { i \in DOMAIN db_bookings :
        /\ db_bookings[i].status \in ActiveStatuses
        /\ db_bookings[i].room_type = t
        /\ db_bookings[i].check_in <= d /\ d < db_bookings[i].check_out }

\* C17: the only error a submit of the form for a new booking raises is the one for a missing
\* required field: no creation is refused for the bookings or overrides that are stored
C17_CreationNeverRefused ==
    [][(activeTab = "bookings" /\ isAddBookingOpen /\ editingBooking = 0 /\ lastError' # "") =>
          lastError' = "Please fill in all required fields"]_vars

\* C17 witness: two active bookings of one room_type cover the same day, more than there are
\* active rooms of the type, and the room has an override on that day
C17_Witness ==
    \E t \in RoomTypeInputs, d \in Days :
        /\ Cardinality(ActiveCovering(t, d)) = MaxBookings + 1
        /\ Cardinality(ActiveCovering(t, d)) > Cardinality({ r \in db_rooms : r.is_active /\ r.room_type = t })
        /\ \E a \in Range(db_availability) :
              a.date = d /\ \E r \in db_rooms : r.id = a.room_id /\ r.room_type = t

\* C18: a handler one of whose datastore requests returned an error raises an error toast
C18_ErrorsSurfaced ==
    [][failed' # {} => lastError' # ""]_vars

\* C19: a click on the cell of any listed room and displayed day opens the status dialog,
\* whatever bookings cover the day, and the status then submitted is the stored override of
\* that room and day, whatever override was stored before
C19_OverrideAlwaysSettable ==
    [][/\ \A r \in SampleRooms, d \in Days : ClickCell(r, d) => isStatusDialogOpen'
       /\ \A s \in OverrideStatuses :
             (updateRoomStatus(s) /\ selectedRoom # 0) =>
                 StoredOverride(db_availability', selectedRoom, selectedDate).status = s]_vars

\* C20: the matching booking of a room and day is the same for every order in which the
\* datastore may return the active bookings
C20_DeterministicMatch ==
    CalendarMounted =>
        \A o \in fetchBookings, r \in Range(rooms), d \in Days :
            BookingFor(rooms, o, r.id, format(d)) = getBookingForDate(r.id, format(d))

(***************************************************************************)
(* Properties of the calendar as fetched                                   *)
(***************************************************************************)
\* C21: a booking whose stored status is checked_out is not among the bookings the calendar
\* infers from: it is the matching booking of no room and day, and a room without an override
\* that no other active booking covers is not 'occupied' on any day, also inside the
\* booking's [check_in, check_out)
C21_CheckedOutNeverOccupies ==
    CalendarMounted =>
        \A i \in DOMAIN db_bookings : db_bookings[i].status = "checked_out" =>
            /\ \A b \in Range(bookings) : b.id # i /\ b.status \in ActiveStatuses
            /\ \A r \in Range(rooms), d \in Days :
                  /\ getBookingForDate(r.id, format(d)).id # i
                  /\ (~HasOverride(r.id, d) /\ ~OtherActiveCovers(i, r.room_type, d))
                     => getRoomStatus(r.id, format(d)) # "occupied"

\* C21 witness: a booking stored with status checked_out over a non-empty range, and a room
\* of its type shown available, with no matching booking, on its check-in day
C21_Witness ==
    /\ CalendarMounted
    /\ \E i \in DOMAIN db_bookings, r \in Range(rooms) :
          /\ db_bookings[i].status = "checked_out"
          /\ db_bookings[i].check_in < db_bookings[i].check_out
          /\ r.room_type = db_bookings[i].room_type
          /\ ~HasOverride(r.id, db_bookings[i].check_in)
          /\ getRoomStatus(r.id, format(db_bookings[i].check_in)) = "available"
          /\ getBookingForDate(r.id, format(db_bookings[i].check_in)) = Null

\* C23: the Check In button of a confirmed booking stores checked_in, the Check Out button
\* of a checked_in booking stores checked_out, and a submit of the edit form of a confirmed
\* or checked_in booking stores the status chosen, cancelled among them; none of them
\* raises an error
C23_NonTerminalAccepted ==
    [][/\ \A b \in BookingForms :
             /\ ClickCheckIn(b) => (db_bookings'[b.id].status = "checked_in" /\ lastError' = "")
             /\ ClickCheckOut(b) => (db_bookings'[b.id].status = "checked_out" /\ lastError' = "")
       /\ \A ci \in CheckInInputs \ {<<>>}, co \in CheckOutInputs, t \in RoomTypeInputs, st \in BookingStatuses :
             (/\ handleBookingSubmit(ci, co, t, st)
              /\ editingBooking # 0
              /\ db_bookings[editingBooking].status \in ActiveStatuses) =>
                 (db_bookings'[editingBooking].status = st /\ lastError' = "")]_vars

\* C23 witness: a booking that an edit moved to cancelled is listed as cancelled, no error raised
C23_Witness ==
    /\ activeTab = "bookings"
    /\ lastError = ""
    /\ \E i \in cancelledLog, b \in Range(cbBookings) :
          b.id = i /\ b.status = "cancelled" /\ db_bookings[i].status = "cancelled"

\* every stored override of a displayed day is in the snapshot the resolver reads
SnapshotCoversWindow ==
    \A i \in DOMAIN db_availability :
        db_availability[i].date \in getDaysToShow =>
            \E a \in Range(availability) :
                /\ a.room_id = db_availability[i].room_id
                /\ a.date = format(db_availability[i].date)
                /\ a.status = db_availability[i].status

\* C22: while the calendar is shown and no fetch is unanswered, a view switch or an override
\* write leaves the snapshot holding every stored override of every displayed day
C22_SnapshotCoversWindow ==
    [][(CalendarMounted /\ pending = {} /\ SnapshotCoversWindow /\ CalendarMounted' /\ pending' = {})
          => SnapshotCoversWindow']_vars

C25_MatchIffOccupied ==
    CalendarMounted =>
        \A r \in Range(rooms), d \in Days :
            /\ getBookingForDate(r.id, format(d)) # Null => getRoomStatus(r.id, format(d)) = "occupied"
            /\ (getRoomStatus(r.id, format(d)) = "occupied" /\ ~HasOverride(r.id, d)) =>
                  LET b == getBookingForDate(r.id, format(d))
                  IN  /\ b # Null
                      /\ b.status \in ActiveStatuses
                      /\ b.room_type = r.room_type
                      /\ CoversDay(b, d)

\* C26: a click on a cell opens one of the two dialogs, the booking details dialog exactly
\* when the cell has a matching booking; the status dialog is open only for a room and day
\* that no stored active booking of the room's type covers
C26_OneDialogPerClick ==
    [][/\ \A r \in SampleRooms, d \in Days :
             ClickCell(r, d) =>
                 /\ isBookingDialogOpen' # isStatusDialogOpen'
                 /\ isBookingDialogOpen' <=> (getBookingForDate(r.id, format(d)) # Null)
                 /\ isStatusDialogOpen' => ActiveCovering(r.room_type, d) = {}
       /\ isStatusDialogOpen' =>
             ActiveCovering(RoomTypeOf(rooms', selectedRoom'), ParseDate(selectedDate')) = {}]_vars

\* C26 witness: the click on a cell that a confirmed booking covers has opened the booking
\* details dialog and not the status dialog
C26_Witness ==
    /\ CalendarMounted
    /\ isBookingDialogOpen /\ ~isStatusDialogOpen
    /\ getBookingForDate(selectedRoom, selectedDate).status = "confirmed"
    /\ ActiveCovering(RoomTypeOf(rooms, selectedRoom), ParseDate(selectedDate)) # {}

(***************************************************************************)
(* Properties of the dashboard and the ledger                              *)
(***************************************************************************)
\* the number of active rooms whose effective status for today is 'occupied', resolved from
\* the stored rooms, overrides and active bookings
OccupiedByResolver ==
    Cardinality({ r \in Range(QueryRooms) :
                    RoomStatus(QueryRooms, QueryAvailability(db_availability, Today, Today),
                               QueryActiveBookings(db_bookings), r.id, format(Today)) = "occupied" })

\* C27: when fetchRoomStats has run, occupiedToday is the number of active rooms the resolver
\* answers 'occupied' for today, availableToday is totalRooms - occupiedToday, and
\* 0 <= occupiedToday <= totalRooms
C27_StatsAgreeWithResolver ==
    [][\A f \in SUBSET {"rooms"} : (Refresh(f, {}) /\ f = {}) =>
          /\ roomStats'.occupiedToday = OccupiedByResolver'
          /\ roomStats'.availableToday = roomStats'.totalRooms - roomStats'.occupiedToday
          /\ 0 <= roomStats'.occupiedToday /\ roomStats'.occupiedToday <= roomStats'.totalRooms]_vars

\* C28: after every step every stored and every listed transaction has amount > 0, and a
\* submit of the expense form or of the edit dialog whose amount is not a number above 0
\* leaves the table and the list as they are
C28_AmountPositive ==
    [][/\ \A i \in DOMAIN db_transactions' : db_transactions'[i].amount > 0
       /\ \A t \in Range(transactions') : t.amount > 0
       /\ \A a \in AmountInputs : (isNaN(parseFloat(a)) \/ parseFloat(a).milli <= 0) =>
             /\ (\E c \in CategoryInputs : AddExpenseForm_handleSubmit(c, a))
                   => UNCHANGED <<db_transactions, transactions>>
             /\ EditTransactionDialog_handleSubmit(a) => UNCHANGED <<db_transactions, transactions>>]_vars

\* C28 witness: a submit has just been refused by the datastore, which the amount 0 reaches,
\* while the ledger holds a transaction of the smallest amount, 0.01
C28_Witness ==
    /\ db_transactions # <<>>
    /\ lastError \in {"Failed to add transaction", "Failed to update transaction"}
    /\ \E i \in DOMAIN db_transactions : db_transactions[i].amount = 1

(***************************************************************************)
(* Properties of the auth service                                          *)
(***************************************************************************)
\* C29: after any sequence of initialize, login and logout, in whatever order the datastore
\* answers them, isAuthenticated is true exactly when user is not null, and every change of
\* the state is delivered to every subscribed listener
C29_AuthenticatedIffUser ==
    [][/\ authState'.isAuthenticated <=> authState'.user # NullUser
       /\ authState' # authState => \A l \in Range(listeners) : delivered'[l] = <<authState'>>]_vars

\* C29 witness: after a login that returned true, with two listeners subscribed, the state
\* holds a user, is authenticated, and is the state of the last call of both listeners
C29_Witness ==
    /\ authLast.op = "login" /\ authLast.ok
    /\ Len(listeners) = 2
    /\ authState.isAuthenticated
    /\ authState.user # NullUser
    /\ \A l \in Range(listeners) : delivered[l] = <<authState>>

\* C30: an initialize() called after a login that returned true ends with isAuthenticated
\* true, isLoading false and the user of that login; an initialize() called after a logout
\* ends with isAuthenticated false, user null and isLoading false
C30_SessionRoundTrip ==
    [][(/\ authLast'.op = "initialize"
        /\ authLast.op \in {"login", "logout"}
        /\ \A c \in authCalls \ authCalls' : c.prev = authLast)
       => IF authLast.op = "login" /\ authLast.ok
          THEN authState' = [user |-> authLast.user, isAuthenticated |-> TRUE, isLoading |-> FALSE]
          ELSE authLast.op = "logout"
               => authState' = [user |-> NullUser, isAuthenticated |-> FALSE, isLoading |-> FALSE]]_vars
====
